---- MODULE Spec2Model ----
(***************************************************************************)
(* Dress-pattern generator: the measurement resolver                       *)
(* (Measurements.__post_init__), the derived scalars                       *)
(* (PatternGenerator.calculate_base_values), the point derivation          *)
(* (PatternGenerator.calculate_points) and the generator object that       *)
(* carries them (generate_pattern, apply_adjustments).                     *)
(*                                                                         *)
(* Numbers.  Lengths are Python floats.  They are carried here as          *)
(* fixed-point integers, Scale units to the centimetre; +, - and the       *)
(* halvings, quarterings and thirds of the formulas are exact on that      *)
(* grid for the inputs used, and a general quotient, product or square     *)
(* root rounds to the nearest grid point as the float operation rounds     *)
(* to the nearest double.  The two circumferences the resolver obtains     *)
(* from an inexact float product (size * 2.3, size * 2.2) are carried      *)
(* as exact binary64 values instead, see F64 below.                        *)
(***************************************************************************)
EXTENDS Integers, Sequences, FiniteSets, TLC

VARIABLES
    args,      \* the keyword arguments the current Measurements was built from
    m,         \* generator.measurements (after __post_init__, and as mutated since)
    c,         \* generator.constants
    cv,        \* generator.calculated_values
    points,    \* generator.points
    op,        \* the operation that produced this state
    outcome,   \* how that operation ended: returned, or the exception raised
    nadj,      \* apply_adjustments calls since the point map was last derived
    arg,       \* the argument that operation was called with
    src,       \* the file the generator was loaded from, if it was loaded
    held,      \* the dicts a caller kept from an earlier generate_pattern call
    peer,      \* a second generator the caller has, out of focus
    files,     \* the JSON files on disk, by name
    orig,      \* modifier.original_points of the generator's AdvancedPatternModifier
    nmod       \* calls made on that modifier

\* the fields of one PatternGenerator, and the rest of the caller's world
gen == <<args, m, c, cv, points, op, outcome, nadj, arg, src>>
world == <<held, peer, files, orig, nmod>>
vars == <<args, m, c, cv, points, op, outcome, nadj, arg, src, held, peer, files, orig, nmod>>

----------------------------------------------------------------------------
(* Fixed-point lengths *)

Scale == 16 * 15

\* n centimetres, and h half-centimetres, on the grid
Cm(n) == n * Scale
HalfCm(h) == (h * Scale) \div 2

Abs(x) == IF x < 0 THEN -x ELSE x

\* n / d rounded to the nearest integer, ties to even (d > 0)
RoundDivPos(n, d) ==
    LET q == n \div d
        r == n % d
    IN  IF 2 * r > d \/ (2 * r = d /\ q % 2 = 1) THEN q + 1 ELSE q

RoundDiv(n, d) == IF d < 0 THEN RoundDivPos(-n, -d) ELSE RoundDivPos(n, d)

\* float a / b and a * b on the grid
Div(a, b) == RoundDiv(a * Scale, b)
Mul(a, b) == RoundDiv(a * b, Scale)
\* a / k for a whole number k (the literals 2, 3, 4 of the formulas)
DivBy(a, k) == RoundDiv(a, k)

RECURSIVE SqrtSearch(_, _, _)
\* the largest h in lo..hi with h * h <= x
SqrtSearch(x, lo, hi) ==
    IF lo >= hi THEN lo
    ELSE LET mid == (lo + hi + 1) \div 2
         IN  IF mid * mid <= x THEN SqrtSearch(x, mid, hi)
                               ELSE SqrtSearch(x, lo, mid - 1)

SqrtCap == 2 ^ 15

\* math.sqrt of a grid value a >= 0: the grid point nearest the root
Sqrt(a) ==
    LET x == a * Scale
        h == SqrtSearch(x, 0, SqrtCap)
    IN  IF x - h * h > h THEN h + 1 ELSE h

----------------------------------------------------------------------------
(* binary64 values of the resolver's float products.                       *)
(* <<ip, f1, f2>> is the double ip + f1 / 2^25 + f2 / 2^50: every double   *)
(* from 4 up to 2^25 lies on that grid, and two doubles are equal exactly  *)
(* when their triples are.                                                 *)

Limb == 2 ^ 25

F64(n) == <<n, 0, 0>>

\* the float literals 2.3 = 0x1.2666666666666p+1 and 2.2 = 0x1.199999999999ap+1
HipRatio == <<2, 10066329, 20132659>>
ChestRatio == <<2, 6710886, 13421773>>

RECURSIVE UlpOf(_)
\* the spacing of doubles at integer part ip, in units of 2^-50
UlpOf(ip) == IF ip < 8 THEN 1 ELSE 2 * UlpOf(ip \div 2)

\* the exact product k * r of a whole number k >= 0 and a double r
ExactMul(k, r) ==
    LET p2 == k * r[3]
        p1 == k * r[2] + (p2 \div Limb)
    IN  <<k * r[1] + (p1 \div Limb), p1 % Limb, p2 % Limb>>

\* round-to-nearest-even of an exact value to 53 significant bits
Round53(t) ==
    LET u == UlpOf(t[1])
        r == t[3] % u
        lo == t[3] - r
        up == 2 * r > u \/ (2 * r = u /\ (lo \div u) % 2 = 1)
        f2 == IF up THEN lo + u ELSE lo
        f1 == t[2] + (f2 \div Limb)
    IN  <<t[1] + (f1 \div Limb), f1 % Limb, f2 % Limb>>

\* size * ratio in float arithmetic, size a whole number of centimetres
FloatMul(size, ratio) == Round53(ExactMul(size \div Scale, ratio))

----------------------------------------------------------------------------
(* Measurements *)

DefaultSize == Cm(40)
DefaultShoulderWidth == Cm(40)
DefaultWaist == Cm(80)
DefaultHip == F64(92)
DefaultChest == F64(88)

DefaultArgs ==
    [size |-> DefaultSize,
     shoulder_width |-> DefaultShoulderWidth,
     waist_circumference |-> DefaultWaist,
     hip_circumference |-> DefaultHip,
     chest_circumference |-> DefaultChest,
     jacket_length |-> Cm(85),
     waist_from_A |-> Cm(42),
     hip_from_waist |-> Cm(19),
     shoulder_bone |-> Cm(12),
     neck_depth |-> Cm(2)]

\* PostInit with the hip and chest ratios exchanged
PostInitRatiosSwapped(a) ==
    LET r1 == IF a.waist_circumference = DefaultWaist /\ a.size # DefaultSize
              THEN [a EXCEPT !.waist_circumference = 2 * a.size] ELSE a
        r2 == IF r1.hip_circumference = DefaultHip /\ r1.size # DefaultSize
              THEN [r1 EXCEPT !.hip_circumference = FloatMul(r1.size, ChestRatio)] ELSE r1
        r3 == IF r2.chest_circumference = DefaultChest /\ r2.size # DefaultSize
              THEN [r2 EXCEPT !.chest_circumference = FloatMul(r2.size, HipRatio)] ELSE r2
        r4 == IF r3.shoulder_width = DefaultShoulderWidth /\ r3.size # DefaultSize
              THEN [r3 EXCEPT !.shoulder_width = r3.size] ELSE r3
    IN  r4

\* PostInit with the two tests of each guard joined by "or"
PostInitEitherTest(a) ==
    LET r1 == IF a.waist_circumference = DefaultWaist \/ a.size # DefaultSize
              THEN [a EXCEPT !.waist_circumference = 2 * a.size] ELSE a
        r2 == IF r1.hip_circumference = DefaultHip \/ r1.size # DefaultSize
              THEN [r1 EXCEPT !.hip_circumference = FloatMul(r1.size, HipRatio)] ELSE r1
        r3 == IF r2.chest_circumference = DefaultChest \/ r2.size # DefaultSize
              THEN [r2 EXCEPT !.chest_circumference = FloatMul(r2.size, ChestRatio)] ELSE r2
        r4 == IF r3.shoulder_width = DefaultShoulderWidth \/ r3.size # DefaultSize
              THEN [r3 EXCEPT !.shoulder_width = r3.size] ELSE r3
    IN  r4

\* PostInit without the test on the field's own value
PostInitNoDefaultTest(a) ==
    LET r1 == IF a.size # DefaultSize
              THEN [a EXCEPT !.waist_circumference = 2 * a.size] ELSE a
        r2 == IF r1.size # DefaultSize
              THEN [r1 EXCEPT !.hip_circumference = FloatMul(r1.size, HipRatio)] ELSE r1
        r3 == IF r2.size # DefaultSize
              THEN [r2 EXCEPT !.chest_circumference = FloatMul(r2.size, ChestRatio)] ELSE r2
        r4 == IF r3.size # DefaultSize
              THEN [r3 EXCEPT !.shoulder_width = r3.size] ELSE r3
    IN  r4

\* Measurements.__post_init__: four guarded assignments, in this order
PostInit(a) ==
    LET r1 == IF a.waist_circumference = DefaultWaist /\ a.size # DefaultSize
              THEN [a EXCEPT !.waist_circumference = 2 * a.size] ELSE a
        r2 == IF r1.hip_circumference = DefaultHip /\ r1.size # DefaultSize
              THEN [r1 EXCEPT !.hip_circumference = FloatMul(r1.size, HipRatio)] ELSE r1
        r3 == IF r2.chest_circumference = DefaultChest /\ r2.size # DefaultSize
              THEN [r2 EXCEPT !.chest_circumference = FloatMul(r2.size, ChestRatio)] ELSE r2
        r4 == IF r3.shoulder_width = DefaultShoulderWidth /\ r3.size # DefaultSize
              THEN [r3 EXCEPT !.shoulder_width = r3.size] ELSE r3
    IN  r4

\* an answer typed at a prompt: <<>> for a bare Enter, <<v>> for text that float() reads as v
Blank == <<>>
Typed(v) == <<v>>
OrDefault(answer, default) == IF answer # Blank THEN answer[1] ELSE default

\* PatternInterface.get_user_measurements: the keyword arguments it passes to Measurements
GetUserMeasurements(size_input, shoulder_input, waist_input, hip_input, chest_input) ==
    LET size == OrDefault(size_input, Cm(40))
        default_shoulder == size
        default_waist == size * 2
        default_hip == FloatMul(size, HipRatio)
        default_chest == FloatMul(size, ChestRatio)
    IN  [DefaultArgs EXCEPT
            !.size = size,
            !.shoulder_width = OrDefault(shoulder_input, default_shoulder),
            !.waist_circumference = OrDefault(waist_input, default_waist),
            !.hip_circumference = OrDefault(hip_input, default_hip),
            !.chest_circumference = OrDefault(chest_input, default_chest),
            !.jacket_length = Cm(85),
            !.waist_from_A = Cm(42),
            !.hip_from_waist = Cm(19)]

DefaultConstants ==
    [rule_add |-> Cm(10),
     buttons |-> Cm(3),
     mid_back_seam |-> Cm(1),
     side_seam_back |-> Cm(1),
     side_seam_front |-> Cm(1),
     back_shoulder_add |-> Cm(3),
     front_dart_width |-> Cm(5),
     shoulder_add |-> Cm(3),
     u_rule_constant |-> Cm(2),
     back_shoulder_drop |-> Cm(4),
     front_shoulder_drop |-> Cm(7),
     waist_inset |-> HalfCm(5),
     dart_depth |-> Cm(13),
     u_inset |-> Cm(3)]

----------------------------------------------------------------------------
(* Python dicts as functions on their keys *)

EmptyDict == [k \in {} |-> 0]

Update(d, e) == [k \in (DOMAIN d) \cup (DOMAIN e) |-> IF k \in DOMAIN e THEN e[k] ELSE d[k]]

\* Python's None as a dict value
None == 0 - 2 ^ 30

----------------------------------------------------------------------------
(* PatternGenerator.calculate_base_values *)

\* the dict literal handed to calculated_values.update
FirstValues(mm, cc) ==
    [shoulder_length |-> mm.shoulder_bone + cc.shoulder_add,
     armhole_depth |-> DivBy(mm.shoulder_width + cc.rule_add, 2) + Cm(1),
     width |-> mm.shoulder_width + cc.rule_add + cc.buttons + cc.mid_back_seam
               + cc.side_seam_back + cc.side_seam_front,
     back_width |-> None,
     armhole_value |-> DivBy(mm.shoulder_width + cc.rule_add, 4) + Cm(2),
     back_shoulder_length |-> DivBy(mm.shoulder_width, 2) + cc.back_shoulder_add,
     u_rule |-> cc.u_rule_constant + DivBy(mm.shoulder_width, 4)]

\* calculate_base_values with the seam left out of back_width
CalculateBaseValuesNoSeam(old, mm, cc) ==
    LET cv1 == Update(old, FirstValues(mm, cc))
        cv2 == Update(cv1, [back_width |->
                   DivBy(cv1.width - cc.mid_back_seam - cc.buttons, 2)])
        cv3 == Update(cv2, [half_arm |-> DivBy(cv2.armhole_value, 2)])
    IN  cv3

\* calculate_base_values with the "+ 1" left out of armhole_depth
CalculateBaseValuesNoEase(old, mm, cc) ==
    LET cv1 == Update(old, [FirstValues(mm, cc) EXCEPT !.armhole_depth = @ - Cm(1)])
        cv2 == Update(cv1, [back_width |->
                   DivBy(cv1.width - cc.mid_back_seam - cc.buttons, 2) + cc.mid_back_seam])
        cv3 == Update(cv2, [half_arm |-> DivBy(cv2.armhole_value, 2)])
    IN  cv3

\* calculate_base_values computing the scalars only when there are none yet
CalculateBaseValuesOnce(old, mm, cc) ==
    IF old # EmptyDict THEN old
    ELSE LET cv1 == Update(old, FirstValues(mm, cc))
             cv2 == Update(cv1, [back_width |->
                        DivBy(cv1.width - cc.mid_back_seam - cc.buttons, 2) + cc.mid_back_seam])
             cv3 == Update(cv2, [half_arm |-> DivBy(cv2.armhole_value, 2)])
         IN  cv3

CalculateBaseValues(old, mm, cc) ==
    LET cv1 == Update(old, FirstValues(mm, cc))
        cv2 == Update(cv1, [back_width |->
                   DivBy(cv1.width - cc.mid_back_seam - cc.buttons, 2) + cc.mid_back_seam])
        cv3 == Update(cv2, [half_arm |-> DivBy(cv2.armhole_value, 2)])
    IN  cv3

----------------------------------------------------------------------------
(* PatternGenerator.calculate_points *)

\* the keys of the points dict with the last one, U'', left out
LabelSeqShort ==
    <<"A", "B", "C", "D", "G", "E", "F", "G'", "E'", "F'",
      "H", "H'", "I", "J", "K", "J'", "K'", "L", "M",
      "L'", "M'", "N", "P", "Q", "Q'", "R", "S", "T", "U",
      "V", "V'", "W", "X", "X'", "Z", "Z'", "Z''",
      "z'''", "AB", "AC", "AD", "AE", "Y", "Y'",
      "Y''", "Y'''">>

\* the keys with G' and E' exchanged
LabelSeqMirrorSwapped ==
    <<"A", "B", "C", "D", "G", "E", "F", "E'", "G'", "F'",
      "H", "H'", "I", "J", "K", "J'", "K'", "L", "M", "L'",
      "M'", "N", "P", "Q", "Q'", "R", "S", "T", "U", "V",
      "V'", "W", "X", "X'", "Z", "Z'", "Z''", "z'''", "AB", "AC",
      "AD", "AE", "Y", "Y'", "Y''", "Y'''", "U''">>

\* the keys with z''' and Y''' exchanged
LabelSeqTipsSwapped ==
    <<"A", "B", "C", "D", "G", "E", "F", "G'", "E'", "F'",
      "H", "H'", "I", "J", "K", "J'", "K'", "L", "M", "L'",
      "M'", "N", "P", "Q", "Q'", "R", "S", "T", "U", "V",
      "V'", "W", "X", "X'", "Z", "Z'", "Z''", "Y'''", "AB", "AC",
      "AD", "AE", "Y", "Y'", "Y''", "z'''", "U''">>

\* the keys with Z' and Z'' exchanged
LabelSeqDartSwapped ==
    <<"A", "B", "C", "D", "G", "E", "F", "G'", "E'", "F'",
      "H", "H'", "I", "J", "K", "J'", "K'", "L", "M", "L'",
      "M'", "N", "P", "Q", "Q'", "R", "S", "T", "U", "V",
      "V'", "W", "X", "X'", "Z", "Z''", "Z'", "z'''", "AB", "AC",
      "AD", "AE", "Y", "Y'", "Y''", "Y'''", "U''">>

\* the keys of the points dict, in the order the dict literal lists them
LabelSeq ==
    <<"A", "B", "C", "D", "G", "E", "F", "G'", "E'", "F'",
      "H", "H'", "I", "J", "K", "J'", "K'", "L", "M",
      "L'", "M'", "N", "P", "Q", "Q'", "R", "S", "T", "U",
      "V", "V'", "W", "X", "X'", "Z", "Z'", "Z''",
      "z'''", "AB", "AC", "AD", "AE", "Y", "Y'",
      "Y''", "Y'''", "U''">>

Labels == {LabelSeq[i] : i \in DOMAIN LabelSeq}

\* the dict a literal {k1: v1, k2: v2, ...} with distinct keys builds
DictOf(keys, vals) ==
    [k \in {keys[i] : i \in DOMAIN keys} |-> vals[CHOOSE i \in DOMAIN keys : keys[i] = k]]

Returned(v) == [exc |-> "none", msg |-> "", at |-> "", value |-> v]
Raised(e, text, where) == [exc |-> e, msg |-> text, at |-> where, value |-> EmptyDict]

\* what the two math.sqrt calls are given
RadicandBack(cc, cvv) ==
    Mul(cvv.shoulder_length, cvv.shoulder_length) - Mul(cc.back_shoulder_drop, cc.back_shoulder_drop)

\* the front radicand taken with the back drop
RadicandFrontBackDrop(cc, cvv) ==
    Mul(cvv.shoulder_length, cvv.shoulder_length) - Mul(cc.back_shoulder_drop, cc.back_shoulder_drop)

RadicandFront(cc, cvv) ==
    Mul(cvv.shoulder_length, cvv.shoulder_length) - Mul(cc.front_shoulder_drop, cc.front_shoulder_drop)

\* the line parameter with the fallback taken as 1 instead of 0
LineParamFallbackOne(num, dx) == IF dx # 0 THEN Div(num, dx) ELSE Scale

\* param = (bda_x - P[0]) / dx_pn if dx_pn != 0 else 0
LineParam(num, dx) == IF dx # 0 THEN Div(num, dx) ELSE 0

\* the direction component left undivided by the shoulder length
UnitComponentUnscaled(d, len) == IF len # 0 THEN d ELSE 0

\* unit_dx = dx_pn / shoulder_length if shoulder_length != 0 else 0 (and unit_dy alike)
UnitComponent(d, len) == IF len # 0 THEN Div(d, len) ELSE 0

\* the body of calculate_points once both square roots have been taken
PointsOf(mm, cc, cvv) ==
    LET A == <<0, mm.jacket_length>>
        B == <<0, 0>>
        D == <<cvv.width, mm.jacket_length>>
        C == <<cvv.width, 0>>
        G == <<0, mm.jacket_length - cvv.armhole_depth>>
        E == <<0, mm.jacket_length - mm.waist_from_A>>
        F == <<0, mm.jacket_length - (mm.waist_from_A + mm.hip_from_waist)>>
        G_prime == <<cvv.width, G[2]>>
        E_prime == <<cvv.width, E[2]>>
        F_prime == <<cvv.width, F[2]>>
        H == <<cvv.back_width, mm.jacket_length>>
        H_prime == <<cvv.back_width, 0>>
        I == <<cvv.back_width, G[2]>>
        J == <<cvv.back_width - cvv.half_arm, G[2]>>
        K == <<cvv.back_width + cvv.half_arm, G[2]>>
        J_prime == <<J[1], mm.jacket_length>>
        K_prime == <<K[1], mm.jacket_length>>
        L == <<J[1], mm.jacket_length - cc.back_shoulder_drop>>
        M == <<K[1], mm.jacket_length - cc.front_shoulder_drop>>
        L_prime == <<0, L[2]>>
        M_prime == <<0, M[2]>>
        N == <<cvv.back_shoulder_length, L[2]>>
        horiz_back == Sqrt(RadicandBack(cc, cvv))
        P_x == N[1] - horiz_back
        P == <<P_x, mm.jacket_length>>
        neck_width == P_x - cc.mid_back_seam
        front_neck_width == neck_width + cc.buttons
        R_x == cvv.width - front_neck_width
        R == <<R_x, mm.jacket_length>>
        S_x == R_x - cc.front_dart_width
        S == <<S_x, mm.jacket_length>>
        horiz_front == Sqrt(RadicandFront(cc, cvv))
        T_x == S_x - horiz_front
        T == <<T_x, M[2]>>
        Q == <<0, mm.jacket_length - mm.neck_depth>>
        Q_prime == <<P_x, Q[2]>>
        U == <<cvv.width - cvv.u_rule, G[2]>>
        km_length == cvv.armhole_depth - cc.front_shoulder_drop
        jl_length == cvv.armhole_depth - cc.back_shoulder_drop
        V_y == K[2] + DivBy(km_length, 3)
        V == <<K[1], V_y>>
        V_prime_y == J[2] + DivBy(jl_length, 3)
        V_prime == <<J[1], V_prime_y>>
        W == <<cvv.back_width, E[2]>>
        X == <<cvv.back_width - cc.waist_inset, E[2]>>
        X_prime == <<cvv.back_width + cc.waist_inset, E[2]>>
        dist_x_e == Abs(X[1] - E[1])
        adj_dist == DivBy(dist_x_e - Cm(1), 2) + Cm(1)
        Z == <<adj_dist, E[2]>>
        Z_prime == <<Z[1] - Cm(1), Z[2]>>
        Z_double_prime == <<Z[1] + HalfCm(3), Z[2]>>
        bda_x == Z[1]
        z_triple_prime == <<bda_x, Z[2] - cc.dart_depth>>
        AB_point == <<bda_x, G[2]>>
        dx_pn == N[1] - P[1]
        dy_pn == N[2] - P[2]
        param == LineParam(bda_x - P[1], dx_pn)
        ac_y == P[2] + Mul(param, dy_pn)
        AC == <<bda_x, ac_y>>
        unit_dx == UnitComponent(dx_pn, cvv.shoulder_length)
        unit_dy == UnitComponent(dy_pn, cvv.shoulder_length)
        AD == <<AC[1] + unit_dx, AC[2] + unit_dy>>
        AE == <<Cm(1), E[2]>>
        U_prime_prime == <<U[1], U[2] - cc.u_inset>>
        Y == <<U[1], E[2]>>
        Y_prime == <<Y[1], Y[2] + Cm(1)>>
        Y_double_prime == <<Y[1], Y[2] - HalfCm(3)>>
        Y_triple_prime == <<Y[1], Y[2] + Cm(13)>>
    IN  DictOf(LabelSeq,
          <<A, B, C, D, G, E, F, G_prime, E_prime, F_prime,
            H, H_prime, I, J, K, J_prime, K_prime, L, M,
            L_prime, M_prime, N, P, Q, Q_prime, R, S, T, U,
            V, V_prime, W, X, X_prime, Z, Z_prime, Z_double_prime,
            z_triple_prime, AB_point, AC, AD, AE, Y, Y_prime,
            Y_double_prime, Y_triple_prime, U_prime_prime>>)

\* calculate_points: math.sqrt raises ValueError("math domain error") on a negative
\* argument, first for horiz_back, then for horiz_front; self.points is assigned last
CalculatePoints(mm, cc, cvv) ==
    IF RadicandBack(cc, cvv) < 0
    THEN Raised("ValueError", "math domain error", "horiz_back")
    ELSE IF RadicandFront(cc, cvv) < 0
         THEN Raised("ValueError", "math domain error", "horiz_front")
         ELSE Returned(PointsOf(mm, cc, cvv))

----------------------------------------------------------------------------
(* The legacy script pattern_making.py: module-level assignments, run once *)

\* the keys of the script's points dict, in the order its literal lists them
LegacyLabelSeq ==
    <<"A", "B", "C", "D", "G", "E", "F", "G'", "E'", "F'",
      "H", "H'", "I", "J", "K", "J'", "K'", "L", "M",
      "L'", "M'", "N", "P", "Q", "Q'", "R", "S", "T", "U",
      "V", "V'", "W", "X", "X'", "Z", "Z'", "Z''",
      "z'''", "AB", "AC", "AD", "AE", "Y", "Y'",
      "Y''", "Y'''", "U''">>

\* the commented-out alternative: Y''' 13 below Y
LegacyTipDown(Y) == <<Y[1], Y[2] - Cm(13)>>

\* Y_triple_prime = (Y[0], Y[1] + 13)
LegacyTip(Y) == <<Y[1], Y[2] + Cm(13)>>

\* the points dict the script has built when it reaches its plotting code
LegacyPoints ==
    LET shoulder_width == Cm(40)
        rule_add == Cm(10)
        buttons == Cm(3)
        mid_back_seam == Cm(1)
        side_seam_back == Cm(1)
        side_seam_front == Cm(1)
        jacket_length == Cm(85)
        armhole_depth == DivBy(shoulder_width + rule_add, 2) + Cm(1)
        waist_from_A == Cm(42)
        hip_from_waist == Cm(19)
        back_shoulder_add == Cm(3)
        front_dart_width == Cm(5)
        shoulder_bone == Cm(12)
        shoulder_add == Cm(3)
        shoulder_length == shoulder_bone + shoulder_add
        neck_depth == Cm(2)
        u_rule_constant == Cm(2)
        back_shoulder_drop == Cm(4)
        front_shoulder_drop == Cm(7)
        waist_inset == HalfCm(5)
        dart_depth == Cm(13)
        u_inset == Cm(3)
        width == shoulder_width + rule_add + buttons + mid_back_seam + side_seam_back
                     + side_seam_front
        back_width == DivBy(width - mid_back_seam - buttons, 2) + mid_back_seam
        armhole_value == DivBy(shoulder_width + rule_add, 4) + Cm(2)
        half_arm == DivBy(armhole_value, 2)
        back_shoulder_length == DivBy(shoulder_width, 2) + back_shoulder_add
        u_rule == u_rule_constant + DivBy(shoulder_width, 4)
        A == <<0, jacket_length>>
        B == <<0, 0>>
        D == <<width, jacket_length>>
        C == <<width, 0>>
        G == <<0, jacket_length - armhole_depth>>
        E == <<0, jacket_length - waist_from_A>>
        F == <<0, jacket_length - (waist_from_A + hip_from_waist)>>
        G_prime == <<width, G[2]>>
        E_prime == <<width, E[2]>>
        F_prime == <<width, F[2]>>
        H == <<back_width, jacket_length>>
        H_prime == <<back_width, 0>>
        I == <<back_width, G[2]>>
        J == <<back_width - half_arm, G[2]>>
        K == <<back_width + half_arm, G[2]>>
        J_prime == <<J[1], jacket_length>>
        K_prime == <<K[1], jacket_length>>
        L == <<J[1], jacket_length - back_shoulder_drop>>
        M == <<K[1], jacket_length - front_shoulder_drop>>
        L_prime == <<0, L[2]>>
        M_prime == <<0, M[2]>>
        N == <<back_shoulder_length, L[2]>>
        horiz_back == Sqrt(Mul(shoulder_length, shoulder_length)
                               - Mul(back_shoulder_drop, back_shoulder_drop))
        P_x == N[1] - horiz_back
        P == <<P_x, jacket_length>>
        neck_width == P_x - mid_back_seam
        front_neck_width == neck_width + buttons
        R_x == width - front_neck_width
        R == <<R_x, jacket_length>>
        S_x == R_x - front_dart_width
        S == <<S_x, jacket_length>>
        horiz_front == Sqrt(Mul(shoulder_length, shoulder_length)
                                - Mul(front_shoulder_drop, front_shoulder_drop))
        T_x == S_x - horiz_front
        T == <<T_x, M[2]>>
        Q == <<0, jacket_length - neck_depth>>
        Q_prime == <<P_x, Q[2]>>
        U == <<width - u_rule, G[2]>>
        km_length == armhole_depth - front_shoulder_drop
        jl_length == armhole_depth - back_shoulder_drop
        V_y == K[2] + DivBy(km_length, 3)
        V == <<K[1], V_y>>
        V_prime_y == J[2] + DivBy(jl_length, 3)
        V_prime == <<J[1], V_prime_y>>
        W == <<back_width, E[2]>>
        X == <<back_width - waist_inset, E[2]>>
        X_prime == <<back_width + waist_inset, E[2]>>
        dist_x_e == Abs(X[1] - E[1])
        adj_dist == DivBy(dist_x_e - Cm(1), 2) + Cm(1)
        Z == <<adj_dist, E[2]>>
        Z_prime == <<Z[1] - Cm(1), Z[2]>>
        Z_double_prime == <<Z[1] + HalfCm(3), Z[2]>>
        bda_x == Z[1]
        z_triple_prime == <<bda_x, Z[2] - dart_depth>>
        AB_point == <<bda_x, G[2]>>
        dx_pn == N[1] - P[1]
        dy_pn == N[2] - P[2]
        param == Div(bda_x - P[1], dx_pn)
        ac_y == P[2] + Mul(param, dy_pn)
        AC == <<bda_x, ac_y>>
        unit_dx == Div(dx_pn, shoulder_length)
        unit_dy == Div(dy_pn, shoulder_length)
        AD == <<AC[1] + unit_dx, AC[2] + unit_dy>>
        AE == <<Cm(1), E[2]>>
        U_prime_prime == <<U[1], U[2] - u_inset>>
        Y == <<U[1], E[2]>>
        Y_prime == <<Y[1], Y[2] + Cm(1)>>
        Y_double_prime == <<Y[1], Y[2] - HalfCm(3)>>
        Y_triple_prime == LegacyTip(Y)
    IN  DictOf(LegacyLabelSeq,
          <<A, B, C, D, G, E, F, G_prime, E_prime, F_prime,
            H, H_prime, I, J, K, J_prime, K_prime, L, M,
            L_prime, M_prime, N, P, Q, Q_prime, R, S, T, U,
            V, V_prime, W, X, X_prime, Z, Z_prime, Z_double_prime,
            z_triple_prime, AB_point, AC, AD, AE, Y, Y_prime,
            Y_double_prime, Y_triple_prime, U_prime_prime>>)

----------------------------------------------------------------------------
(* PatternGenerator.apply_adjustments *)

NoAdjustments == EmptyDict

\* apply_adjustments with the hip branch filled in: F' moved by a quarter
ApplyAdjustmentsToWithHip(pts, adj) ==
    LET p0 == IF "hip_adjustment" \in DOMAIN adj /\ "F'" \in DOMAIN pts
              THEN [pts EXCEPT !["F'"] = <<@[1] + DivBy(adj["hip_adjustment"], 4), @[2]>>]
              ELSE pts
        p1 == IF "waist_adjustment" \in DOMAIN adj /\ "X" \in DOMAIN p0
              THEN [p0 EXCEPT !["X"] = <<@[1] + DivBy(adj["waist_adjustment"], 4), @[2]>>]
              ELSE p0
        p2 == IF "waist_adjustment" \in DOMAIN adj /\ "X'" \in DOMAIN p1
              THEN [p1 EXCEPT !["X'"] = <<@[1] - DivBy(adj["waist_adjustment"], 4), @[2]>>]
              ELSE p1
    IN  p2

ApplyAdjustmentsTo(pts, adj) ==
    IF "waist_adjustment" \in DOMAIN adj
    THEN LET waist_adj == adj["waist_adjustment"]
             p1 == IF "X" \in DOMAIN pts
                   THEN [pts EXCEPT !["X"] = <<@[1] + DivBy(waist_adj, 4), @[2]>>] ELSE pts
             p2 == IF "X'" \in DOMAIN p1
                   THEN [p1 EXCEPT !["X'"] = <<@[1] - DivBy(waist_adj, 4), @[2]>>] ELSE p1
         IN  p2
    ELSE pts

----------------------------------------------------------------------------
(* The inputs the operations are exercised on *)

\* sizes, whole centimetres: the default 40, the spec's example 50, and one more
Sizes == {Cm(38), Cm(40), Cm(50)}

\* each resolver field is supplied either at its hardcoded default or away from it
ShoulderWidths == {DefaultShoulderWidth, Cm(44)}
Waists == {DefaultWaist, Cm(84)}
Hips == {DefaultHip, F64(96)}
Chests == {DefaultChest, F64(90)}

\* shoulder_bone 12 gives shoulder_length 15, shoulder_bone 2 gives 5
ShoulderBones == {Cm(12), Cm(2)}

\* drops below, at and above the two shoulder lengths, and one negative
BackDrops == {Cm(4), Cm(5), Cm(9), Cm(0 - 16)}
FrontDrops == {Cm(7), Cm(3)}

\* Measurements(size=s, shoulder_width=sw, waist_circumference=w, ...)
ArgSets ==
    {[DefaultArgs EXCEPT !.size = s, !.shoulder_width = sw, !.waist_circumference = w,
                         !.hip_circumference = h, !.chest_circumference = ch] :
        s \in Sizes, sw \in ShoulderWidths, w \in Waists, h \in Hips, ch \in Chests}

\* Measurements(size=s)
SizeArgs == {[DefaultArgs EXCEPT !.size = s] : s \in Sizes}

\* PatternConstants(back_shoulder_drop=b, front_shoulder_drop=f)
ConstantSets ==
    {[DefaultConstants EXCEPT !.back_shoulder_drop = b, !.front_shoulder_drop = f] :
        b \in BackDrops, f \in FrontDrops}

\* what a user types at the prompts of the interactive mode
PromptArgs ==
    {GetUserMeasurements(s, Blank, w, h, Blank) :
        s \in {Blank, Typed(Cm(50))}, w \in {Blank, Typed(DefaultWaist)},
        h \in {Blank, Typed(DefaultHip)}}

\* shoulder_bone + shoulder_add equal to 0 with both drops 0, and equal to -5 with
\* drops 4 and 3
EdgeInputs ==
    {<<[DefaultArgs EXCEPT !.shoulder_bone = Cm(0 - 3)],
       [DefaultConstants EXCEPT !.back_shoulder_drop = 0, !.front_shoulder_drop = 0]>>,
     <<[DefaultArgs EXCEPT !.shoulder_bone = Cm(0 - 8)],
       [DefaultConstants EXCEPT !.back_shoulder_drop = Cm(4), !.front_shoulder_drop = Cm(3)]>>}

\* the generators built: any measurements with the default constants, and any
\* constants with measurements given by size alone
\* the dart_depth constant overridden, shallower and deeper than its default 13
DartInputs ==
    {<<DefaultArgs, [DefaultConstants EXCEPT !.dart_depth = Cm(10)]>>,
     <<[DefaultArgs EXCEPT !.size = Cm(50)], [DefaultConstants EXCEPT !.dart_depth = Cm(15)]>>}

Inputs ==
    {<<a, DefaultConstants>> : a \in ArgSets \cup PromptArgs} \cup (SizeArgs \X ConstantSets)
        \cup EdgeInputs \cup DartInputs

AdjustmentMaps ==
    {NoAdjustments,
     [waist_adjustment |-> Cm(4)],
     [waist_adjustment |-> Cm(0 - 2), chest_adjustment |-> Cm(1)],
     [hip_adjustment |-> Cm(2)]}

\* standalone apply_adjustments calls allowed on one derived point map
MaxAdjust == 1

----------------------------------------------------------------------------
(* The generator *)

NoOutcome == [exc |-> "none", msg |-> "", at |-> ""]
Ended(r) == [exc |-> r.exc, msg |-> r.msg, at |-> r.at]

\* an optional value: <<>> when there is none, <<v>> when it is v
Nothing == <<>>
Some(v) == <<v>>

\* the generator was built by its constructor, not by load_measurements
NoSource == Nothing

\* the caller kept nothing; or it kept generator.calculated_values and the map
\* generate_pattern returned.  scalars_same / points_same say whether the dict kept is
\* still the dict the generator holds, scalars / points are its contents otherwise
NoHeld == Nothing
ScalarsKept == IF held[1].scalars_same THEN cv ELSE held[1].scalars
PointsKept == IF held[1].points_same THEN points ELSE held[1].points

\* calculate_points binds self.points to a new dict: a dict kept earlier is no longer
\* the generator's, and keeps the contents it had
Rebound(h, pts) ==
    IF h # NoHeld /\ h[1].points_same
    THEN Some([h[1] EXCEPT !.points_same = FALSE, !.points = pts])
    ELSE h

\* Measurements(**a) followed by PatternGenerator(measurements, k)
Construct(a, k) ==
    /\ args = a
    /\ m = PostInit(a)
    /\ c = k
    /\ cv = EmptyDict
    /\ points = EmptyDict
    /\ op = "construct"
    /\ outcome = NoOutcome
    /\ nadj = 0
    /\ arg = NoAdjustments
    /\ src = NoSource

\* one generator and nothing else: no dict kept, no second generator, no file, no
\* modifier call
Alone ==
    /\ held = NoHeld
    /\ peer = Nothing
    /\ files = EmptyDict
    /\ orig = Nothing
    /\ nmod = 0

Init == Alone /\ \E i \in Inputs : Construct(i[1], i[2])

\* generator.measurements.shoulder_bone = v (the record is a plain mutable dataclass)
SetShoulderBone(v) ==
    /\ m.shoulder_bone # v
    /\ m' = [m EXCEPT !.shoulder_bone = v]
    /\ op' = "set"
    /\ outcome' = NoOutcome
    /\ arg' = NoAdjustments
    /\ UNCHANGED <<args, c, cv, points, nadj, src>>
    /\ UNCHANGED world

\* the labels calculate_points has computed when it reaches the first square root
LabelsBeforeRoot ==
    {"A", "B", "C", "D", "G", "E", "F", "G'", "E'", "F'", "H", "H'", "I", "J", "K",
     "J'", "K'", "L", "M", "L'", "M'", "N"}

\* generate_pattern storing each point in self.points as soon as it is computed
GeneratePatternStoringEarly(adj) ==
    LET cv1 == CalculateBaseValues(cv, m, c)
        res == CalculatePoints(m, c, cv1)
        early == [l \in LabelsBeforeRoot |-> PointsOf(m, c, cv1)[l]]
    IN  /\ cv' = cv1
        /\ op' = "generate_pattern"
        /\ outcome' = Ended(res)
        /\ arg' = adj
        /\ held' = IF res.exc # "none" THEN held ELSE Rebound(held, points)
        /\ IF res.exc # "none"
           THEN /\ points' = Update(points, early)
                /\ UNCHANGED nadj
           ELSE IF adj # NoAdjustments
                THEN /\ points' = ApplyAdjustmentsTo(res.value, adj)
                     /\ nadj' = 1
                ELSE /\ points' = res.value
                     /\ nadj' = 0
        /\ UNCHANGED <<args, m, c, src>>
        /\ UNCHANGED <<peer, files, orig, nmod>>

\* generate_pattern deriving the points only when there are none yet
GeneratePatternKeepingPoints(adj) ==
    LET cv1 == CalculateBaseValues(cv, m, c)
        res == CalculatePoints(m, c, cv1)
        base == IF points # EmptyDict THEN points ELSE res.value
    IN  /\ cv' = cv1
        /\ op' = "generate_pattern"
        /\ outcome' = Ended(res)
        /\ arg' = adj
        /\ held' = IF res.exc # "none" THEN held ELSE Rebound(held, points)
        /\ IF res.exc # "none"
           THEN UNCHANGED <<points, nadj>>
           ELSE IF adj # NoAdjustments
                THEN /\ points' = ApplyAdjustmentsTo(base, adj)
                     /\ nadj' = 1
                ELSE /\ points' = base
                     /\ nadj' = 0
        /\ UNCHANGED <<args, m, c, src>>
        /\ UNCHANGED <<peer, files, orig, nmod>>

\* generator.generate_pattern(adj)
GeneratePattern(adj) ==
    LET cv1 == CalculateBaseValues(cv, m, c)
        res == CalculatePoints(m, c, cv1)
    IN  /\ cv' = cv1
        /\ op' = "generate_pattern"
        /\ outcome' = Ended(res)
        /\ arg' = adj
        /\ held' = IF res.exc # "none" THEN held ELSE Rebound(held, points)
        /\ IF res.exc # "none"
           THEN UNCHANGED <<points, nadj>>
           ELSE IF adj # NoAdjustments
                THEN /\ points' = ApplyAdjustmentsTo(res.value, adj)
                     /\ nadj' = 1
                ELSE /\ points' = res.value
                     /\ nadj' = 0
        /\ UNCHANGED <<args, m, c, src>>
        /\ UNCHANGED <<peer, files, orig, nmod>>

\* generator.apply_adjustments(adj), called on its own
ApplyAdjustments(adj) ==
    /\ nadj < MaxAdjust
    /\ points' = ApplyAdjustmentsTo(points, adj)
    /\ nadj' = nadj + 1
    /\ op' = "apply_adjustments"
    /\ outcome' = NoOutcome
    /\ arg' = adj
    /\ UNCHANGED <<args, m, c, cv, src>>
    /\ UNCHANGED world

Next ==
    \/ \E v \in ShoulderBones : SetShoulderBone(v)
    \/ \E adj \in AdjustmentMaps : GeneratePattern(adj)
    \/ \E adj \in AdjustmentMaps : ApplyAdjustments(adj)

Spec == Init /\ [][Next]_vars

----------------------------------------------------------------------------
(* Two generators in one program *)

\* the fields of a generator just built from keyword arguments a and constants k
Built(a, k) ==
    [args |-> a, m |-> PostInit(a), c |-> k, cv |-> EmptyDict, points |-> EmptyDict,
     op |-> "construct", outcome |-> NoOutcome, nadj |-> 0, arg |-> NoAdjustments,
     src |-> NoSource]

\* the fields of the generator in focus
Focused ==
    [args |-> args, m |-> m, c |-> c, cv |-> cv, points |-> points, op |-> op,
     outcome |-> outcome, nadj |-> nadj, arg |-> arg, src |-> src]

\* both generators get drops 4 and 3, under which shoulder_bone 12 and 2 both derive
PairConstants == [DefaultConstants EXCEPT !.front_shoulder_drop = Cm(3)]
PairInputs ==
    {<<[DefaultArgs EXCEPT !.shoulder_bone = sb], PairConstants>> : sb \in ShoulderBones}
PairAdjustments == {NoAdjustments, [waist_adjustment |-> Cm(4)]}

PairInit ==
    /\ held = NoHeld
    /\ files = EmptyDict
    /\ orig = Nothing
    /\ nmod = 0
    /\ \E i \in PairInputs, j \in PairInputs :
          /\ Construct(i[1], i[2])
          /\ peer = Some(Built(j[1], j[2]))

\* the caller turns to its other generator: each object keeps its own fields
Switch ==
    /\ peer # Nothing
    /\ peer' = Some(Focused)
    /\ args' = peer[1].args
    /\ m' = peer[1].m
    /\ c' = peer[1].c
    /\ cv' = peer[1].cv
    /\ points' = peer[1].points
    /\ op' = peer[1].op
    /\ outcome' = peer[1].outcome
    /\ nadj' = peer[1].nadj
    /\ arg' = peer[1].arg
    /\ src' = peer[1].src
    /\ UNCHANGED <<held, files, orig, nmod>>

\* the caller drops its other generator and builds a new one in its place
CreatePeer(a, k) ==
    /\ peer # Nothing
    /\ peer' = Some(Built(a, k))
    /\ UNCHANGED gen
    /\ UNCHANGED <<held, files, orig, nmod>>

PairNext ==
    \/ Switch
    \/ \E i \in PairInputs : CreatePeer(i[1], i[2])
    \/ \E v \in ShoulderBones : SetShoulderBone(v)
    \/ \E adj \in PairAdjustments : GeneratePattern(adj)
    \/ \E adj \in PairAdjustments : ApplyAdjustments(adj)

PairSpec == PairInit /\ [][PairNext]_vars

----------------------------------------------------------------------------
(* A caller that keeps what generate_pattern gave it *)

\* points = generator.generate_pattern(...); scalars = generator.calculated_values:
\* the caller keeps references to both dicts
Keep ==
    /\ op = "generate_pattern"
    /\ outcome.exc = "none"
    /\ held' = Some([scalars_same |-> TRUE, scalars |-> cv,
                     points_same |-> TRUE, points |-> points])
    /\ op' = "keep"
    /\ UNCHANGED <<args, m, c, cv, points, outcome, nadj, arg, src>>
    /\ UNCHANGED <<peer, files, orig, nmod>>

HeldInit ==
    /\ Alone
    /\ \E i \in PairInputs : Construct(i[1], i[2])

HeldNext ==
    \/ Keep
    \/ \E v \in ShoulderBones : SetShoulderBone(v)
    \/ \E adj \in PairAdjustments : GeneratePattern(adj)
    \/ \E adj \in PairAdjustments : ApplyAdjustments(adj)

HeldSpec == HeldInit /\ [][HeldNext]_vars

----------------------------------------------------------------------------
(* AdvancedPatternModifier *)

\* the float literal 0.k on the grid
Tenths(k) == (k * Scale) \div 10

\* points[l] = (x + dx, y + dy) when l is in the map
Move(pts, l, dx, dy) ==
    IF l \in DOMAIN pts THEN [pts EXCEPT ![l] = <<@[1] + dx, @[2] + dy>>] ELSE pts

\* _adjust_dart_width
AdjustDartWidth(pts, adjustment) ==
    IF "Z'" \in DOMAIN pts /\ "z'''" \in DOMAIN pts
    THEN Move(Move(pts, "Z'", 0 - DivBy(adjustment, 2), 0), "Z''", DivBy(adjustment, 2), 0)
    ELSE pts

\* _adjust_waist
AdjustWaist(pts, adjustment) ==
    LET quarter_adj == DivBy(adjustment, 4)
        p1 == Move(pts, "X", 0 - quarter_adj, 0)
        p2 == Move(p1, "X'", quarter_adj, 0)
        p3 == Move(p2, "Z", quarter_adj, 0)
    IN  IF Abs(adjustment) > Cm(2)
        THEN AdjustDartWidth(p3, Mul(adjustment, Tenths(3)))
        ELSE p3

\* _adjust_hip
AdjustHip(pts, cvv, adjustment) ==
    LET hip_level == IF "F" \in DOMAIN pts THEN pts["F"][2] ELSE 0
        quarter_adj == DivBy(adjustment, 4)
    IN  [l \in DOMAIN pts |->
            IF Abs(pts[l][2] - hip_level) < Cm(2)
            THEN IF pts[l][1] > DivBy(cvv.width, 2)
                 THEN <<pts[l][1] + quarter_adj, pts[l][2]>>
                 ELSE IF pts[l][1] > 0
                      THEN <<pts[l][1] - quarter_adj, pts[l][2]>>
                      ELSE pts[l]
            ELSE pts[l]]

\* _adjust_bust_dart
AdjustBustDart(pts, adjustment) ==
    IF "S" \in DOMAIN pts /\ "R" \in DOMAIN pts
    THEN Move(pts, "S", 0 - Mul(adjustment, Tenths(5)), 0)
    ELSE pts

\* _adjust_chest without the lines that carry J' and K' along
AdjustChestPrimesKept(pts, adjustment) ==
    LET quarter_adj == DivBy(adjustment, 4)
        p1 == Move(pts, "K", quarter_adj, 0)
        p2 == Move(p1, "J", 0 - quarter_adj, 0)
    IN  IF Abs(adjustment) > Cm(3)
        THEN AdjustBustDart(p2, Mul(adjustment, Tenths(4)))
        ELSE p2

\* _adjust_chest
AdjustChest(pts, adjustment) ==
    LET quarter_adj == DivBy(adjustment, 4)
        p1 == IF "K" \in DOMAIN pts
              THEN [pts EXCEPT !["K"] = <<pts["K"][1] + quarter_adj, pts["K"][2]>>,
                               !["K'"] = <<pts["K"][1] + quarter_adj, pts["K'"][2]>>]
              ELSE pts
        p2 == IF "J" \in DOMAIN p1
              THEN [p1 EXCEPT !["J"] = <<p1["J"][1] - quarter_adj, p1["J"][2]>>,
                              !["J'"] = <<p1["J"][1] - quarter_adj, p1["J'"][2]>>]
              ELSE p1
    IN  IF Abs(adjustment) > Cm(3)
        THEN AdjustBustDart(p2, Mul(adjustment, Tenths(4)))
        ELSE p2

\* _adjust_shoulder (_recalculate_shoulder_dependent_points does nothing)
AdjustShoulder(pts, adjustment) ==
    Move(Move(pts, "N", DivBy(adjustment, 2), 0), "T", 0 - DivBy(adjustment, 2), 0)

\* the points _adjust_length leaves where they are
TopEdge == {"A", "D", "H", "J'", "K'", "P", "Q", "Q'", "R", "S"}

\* _adjust_length, on the generator's points and measurements
AdjustLength(st, adjustment) ==
    [st EXCEPT
        !.points = [l \in DOMAIN st.points |->
                       IF l \in TopEdge THEN st.points[l]
                       ELSE <<st.points[l][1], st.points[l][2] + adjustment>>],
        !.m = [st.m EXCEPT !.jacket_length = @ + adjustment]]

\* _adjust_armhole followed by _recalculate_armhole_points
AdjustArmhole(st, adjustment) ==
    LET cv1 == [st.cv EXCEPT !.armhole_depth = @ + adjustment]
        new_g_y == st.m.jacket_length - cv1.armhole_depth
    IN  [st EXCEPT
            !.cv = cv1,
            !.points = Update(st.points,
                [l \in {"G", "G'", "I"} |->
                    IF l = "G" THEN <<0, new_g_y>>
                    ELSE IF l = "G'" THEN <<cv1.width, new_g_y>>
                    ELSE <<cv1.back_width, new_g_y>>])]

\* the body of apply_advanced_adjustments once the points exist: the six guarded
\* adjustments in the order of the source
Adjusted(st0, adj) ==
    LET has(k) == k \in DOMAIN adj
        s1 == IF has("waist_adjustment")
              THEN [st0 EXCEPT !.points = AdjustWaist(@, adj["waist_adjustment"])] ELSE st0
        s2 == IF has("hip_adjustment")
              THEN [s1 EXCEPT !.points = AdjustHip(@, s1.cv, adj["hip_adjustment"])] ELSE s1
        s3 == IF has("chest_adjustment")
              THEN [s2 EXCEPT !.points = AdjustChest(@, adj["chest_adjustment"])] ELSE s2
        s4 == IF has("shoulder_adjustment")
              THEN [s3 EXCEPT !.points = AdjustShoulder(@, adj["shoulder_adjustment"])] ELSE s3
        s5 == IF has("length_adjustment")
              THEN AdjustLength(s4, adj["length_adjustment"]) ELSE s4
        s6 == IF has("armhole_adjustment")
              THEN AdjustArmhole(s5, adj["armhole_adjustment"]) ELSE s5
    IN  s6

\* _modify_neckline
ModifyNeckline(pts, neckline_type) ==
    CASE neckline_type = "v_neck" -> Move(pts, "R", 0, 0 - Cm(3))
      [] neckline_type = "square" ->
            IF "Q" \in DOMAIN pts /\ "R" \in DOMAIN pts
            THEN [pts EXCEPT !["R"] = <<pts["R"][1], pts["Q"][2]>>] ELSE pts
      [] neckline_type = "boat" ->
            IF "Q" \in DOMAIN pts /\ "R" \in DOMAIN pts
            THEN Move(Move(pts, "Q", 0, Cm(1)), "R", 0 - Cm(2), Cm(1)) ELSE pts
      [] OTHER -> pts

\* _apply_a_line_flare
ApplyALineFlare(pts, hem_increase) ==
    Move(Move(pts, "C", DivBy(hem_increase, 4), 0), "B", 0 - DivBy(hem_increase, 4), 0)

\* _remove_waist_shaping
RemoveWaistShaping(pts) ==
    LET p1 == IF "X" \in DOMAIN pts /\ "I" \in DOMAIN pts
              THEN [pts EXCEPT !["X"] = <<pts["I"][1], pts["X"][2]>>] ELSE pts
    IN  IF "X'" \in DOMAIN p1
        THEN [p1 EXCEPT !["X'"] = <<pts["I"][1], p1["X'"][2]>>] ELSE p1

\* _apply_flare_from_waist divides by waist_y for each point below the waist with x > 0
FlareDividesByZero(pts) ==
    LET waist_y == IF "E" \in DOMAIN pts THEN pts["E"][2] ELSE 0
    IN  waist_y = 0 /\ \E l \in DOMAIN pts : pts[l][2] < 0 /\ pts[l][1] > 0

\* _apply_flare_from_waist
ApplyFlareFromWaist(pts, cvv, flare_increase) ==
    LET waist_y == IF "E" \in DOMAIN pts THEN pts["E"][2] ELSE 0
        quarter_increase == DivBy(flare_increase, 4)
        shift(y) == Mul(quarter_increase, Div(waist_y - y, waist_y))
    IN  [l \in DOMAIN pts |->
            IF pts[l][2] < waist_y
            THEN IF pts[l][1] > DivBy(cvv.width, 2)
                 THEN <<pts[l][1] + shift(pts[l][2]), pts[l][2]>>
                 ELSE IF pts[l][1] > 0
                      THEN <<pts[l][1] - shift(pts[l][2]), pts[l][2]>>
                      ELSE pts[l]
            ELSE pts[l]]

\* _modify_silhouette
ModifySilhouette(pts, cvv, dress_style) ==
    CASE dress_style = "a_line" -> ApplyALineFlare(pts, Cm(8))
      [] dress_style = "straight" -> RemoveWaistShaping(pts)
      [] dress_style = "flared" -> ApplyFlareFromWaist(pts, cvv, Cm(15))
      [] OTHER -> pts

\* _modify_length_style: the length the style asks for, 0 for a style it does not know
StyleLength(length_style) ==
    CASE length_style = "mini" -> Cm(60)
      [] length_style = "knee" -> Cm(70)
      [] length_style = "midi" -> Cm(85)
      [] length_style = "maxi" -> Cm(120)
      [] OTHER -> 0

ModifyLengthStyle(st, length_style) ==
    IF StyleLength(length_style) = 0 THEN st
    ELSE AdjustLength(st, StyleLength(length_style) - st.m.jacket_length)

\* DesignOptions(): the fields apply_design_variations reads
DefaultOptions ==
    [neckline_type |-> "round", dress_style |-> "fitted", dart_style |-> "standard",
     length_style |-> "midi"]

\* the body of apply_design_variations up to its silhouette step
Styled(st0, o) ==
    LET s1 == IF o.neckline_type # "round"
              THEN [st0 EXCEPT !.points = ModifyNeckline(@, o.neckline_type)] ELSE st0
        s2 == IF o.dress_style # "fitted"
              THEN [s1 EXCEPT !.points = ModifySilhouette(@, s1.cv, o.dress_style)] ELSE s1
    IN  s2

\* the adjustment maps and design options the modifier is called with
ModAdjustments ==
    {[waist_adjustment |-> Cm(4)],
     [hip_adjustment |-> Cm(2), chest_adjustment |-> Cm(4)],
     [shoulder_adjustment |-> Cm(1)],
     [length_adjustment |-> Cm(5)],
     [armhole_adjustment |-> Cm(1)],
     [waist_adjustment |-> Cm(0 - 2), length_adjustment |-> Cm(0 - 5),
      armhole_adjustment |-> Cm(0 - 1)]}

ModOptions ==
    {DefaultOptions,
     [DefaultOptions EXCEPT !.dress_style = "a_line"],
     [DefaultOptions EXCEPT !.neckline_type = "v_neck", !.length_style = "maxi"],
     [DefaultOptions EXCEPT !.neckline_type = "square", !.dress_style = "straight",
                            !.dart_style = "princess"],
     [DefaultOptions EXCEPT !.neckline_type = "boat", !.dress_style = "flared",
                            !.dart_style = "french", !.length_style = "mini"]}

\* modifier calls made on one generator
MaxMods == 2

\* original_points kept as the generator's own dict instead of a copy of it: it
\* shows what the adjustments of the call did
SnapshotAliased(o, before, after) == IF o = Nothing THEN Some(after) ELSE o

\* original_points after a call starting with original_points o and points before,
\* and ending with points after: self.generator.points.copy() when it was None.  The
\* copy is a dict of its own holding tuples, so the adjustments do not reach it
Snapshot(o, before, after) == IF o = Nothing THEN Some(before) ELSE o

\* modifier.apply_advanced_adjustments(adj)
ApplyAdvancedAdjustments(adj) ==
    LET derive == points = EmptyDict
        cv1 == IF derive THEN CalculateBaseValues(cv, m, c) ELSE cv
        res == IF derive THEN CalculatePoints(m, c, cv1) ELSE Returned(points)
        st == Adjusted([points |-> res.value, cv |-> cv1, m |-> m], adj)
    IN  /\ nmod < MaxMods
        /\ nmod' = nmod + 1
        /\ op' = "apply_advanced_adjustments"
        /\ arg' = adj
        /\ outcome' = Ended(res)
        /\ IF res.exc # "none"
           THEN /\ cv' = cv1
                /\ UNCHANGED <<points, m, orig, nadj, held>>
           ELSE /\ orig' = Snapshot(orig, res.value, st.points)
                /\ points' = st.points
                /\ cv' = st.cv
                /\ m' = st.m
                /\ nadj' = IF derive THEN 0 ELSE nadj
                /\ held' = IF derive THEN Rebound(held, points) ELSE held
        /\ UNCHANGED <<args, c, src, peer, files>>

\* apply_design_variations raises: its flare step divides by a waist height of 0
FlareFails(st0, o) ==
    o.dress_style = "flared" /\ FlareDividesByZero(ModifyNeckline(st0.points, o.neckline_type))

\* the body of apply_design_variations on the generator's points, scalars and
\* measurements: neckline, silhouette, dart style (which changes nothing), length
Varied(st0, o) ==
    LET s2 == IF FlareFails(st0, o)
              THEN [st0 EXCEPT !.points = ModifyNeckline(@, o.neckline_type)]
              ELSE Styled(st0, o)
        s3 == IF ~FlareFails(st0, o) /\ o.length_style # "midi"
              THEN ModifyLengthStyle(s2, o.length_style) ELSE s2
    IN  s3

DivisionByZero ==
    [exc |-> "ZeroDivisionError", msg |-> "float division by zero",
     at |-> "_apply_flare_from_waist"]

\* modifier.apply_design_variations(options)
ApplyDesignVariations(o) ==
    LET st0 == [points |-> points, cv |-> cv, m |-> m]
        s3 == Varied(st0, o)
    IN  /\ nmod < MaxMods
        /\ nmod' = nmod + 1
        /\ op' = "apply_design_variations"
        /\ arg' = o
        /\ outcome' = IF FlareFails(st0, o) THEN DivisionByZero ELSE NoOutcome
        /\ points' = s3.points
        /\ cv' = s3.cv
        /\ m' = s3.m
        /\ UNCHANGED <<args, c, src, nadj, orig, held, peer, files>>

\* generators the modifier is attached to: the default, size 50, and one whose
\* derivation fails (shoulder_length 5 against a front drop of 7)
ModInputs ==
    {<<DefaultArgs, DefaultConstants>>,
     <<[DefaultArgs EXCEPT !.size = Cm(50)], DefaultConstants>>,
     <<[DefaultArgs EXCEPT !.shoulder_bone = Cm(2)], DefaultConstants>>}

ModInit ==
    /\ Alone
    /\ \E i \in ModInputs : Construct(i[1], i[2])

ModNext ==
    \/ \E adj \in PairAdjustments : GeneratePattern(adj)
    \/ \E adj \in PairAdjustments : ApplyAdjustments(adj)
    \/ \E adj \in ModAdjustments : ApplyAdvancedAdjustments(adj)
    \/ \E o \in ModOptions : ApplyDesignVariations(o)

ModSpec == ModInit /\ [][ModNext]_vars

----------------------------------------------------------------------------
(* create_a_line_dress and plot_pattern *)

\* generator.plot_pattern(filename, show_plot=False): derives the pattern when the
\* generator has no points, then draws every point of self.points and the lines
\* between them.  What is drawn is the point map the step ends with
PlotPattern ==
    LET derive == points = EmptyDict
        cv1 == IF derive THEN CalculateBaseValues(cv, m, c) ELSE cv
        res == IF derive THEN CalculatePoints(m, c, cv1) ELSE Returned(points)
    IN  /\ op' = "plot_pattern"
        /\ outcome' = Ended(res)
        /\ arg' = NoAdjustments
        /\ cv' = cv1
        /\ IF res.exc # "none"
           THEN UNCHANGED <<points, nadj, held>>
           ELSE /\ points' = res.value
                /\ nadj' = IF derive THEN 0 ELSE nadj
                /\ held' = IF derive THEN Rebound(held, points) ELSE held
        /\ UNCHANGED <<args, m, c, src, peer, files, orig, nmod>>

\* g = create_a_line_dress(size, adj): a new generator and modifier;
\* apply_advanced_adjustments(adj) only "if adjustments" (neither None nor {}), then
\* apply_design_variations(DesignOptions(dress_style="a_line")).  When the
\* derivation inside raises, the caller gets no generator and keeps the one it had
CreateALineDress(size, adj) ==
    LET a == [DefaultArgs EXCEPT !.size = size]
        called == adj # NoAdjustments
        a_line == [DefaultOptions EXCEPT !.dress_style = "a_line"]
    IN  \E m0 \in {PostInit(a)} :
        \E cv1 \in {IF called THEN CalculateBaseValues(EmptyDict, m0, DefaultConstants)
                     ELSE EmptyDict} :
        \E res \in {IF called THEN CalculatePoints(m0, DefaultConstants, cv1)
                     ELSE Returned(EmptyDict)} :
        \E st1 \in {IF called
                     THEN Adjusted([points |-> res.value, cv |-> cv1, m |-> m0], adj)
                     ELSE [points |-> EmptyDict, cv |-> EmptyDict, m |-> m0]} :
        \E st2 \in {Varied(st1, a_line)} :
            /\ op' = "create_a_line_dress"
            /\ outcome' = Ended(res)
            /\ arg' = adj
            /\ IF res.exc # "none"
               THEN UNCHANGED <<args, m, c, cv, points, nadj, src, orig, nmod>>
               ELSE /\ args' = a
                    /\ m' = st2.m
                    /\ c' = DefaultConstants
                    /\ cv' = st2.cv
                    /\ points' = st2.points
                    /\ nadj' = 0
                    /\ src' = NoSource
                    /\ orig' = IF called THEN Snapshot(Nothing, res.value, st1.points)
                               ELSE Nothing
                    /\ nmod' = IF called THEN 2 ELSE 1
            /\ UNCHANGED <<held, peer, files>>

\* the sizes and adjustments the factory is called with: the demo's size 46 among
\* them, adjustments omitted, and adjustments of several kinds
DressSizes == {Cm(46), Cm(50)}
DressAdjustments ==
    {NoAdjustments,
     [waist_adjustment |-> Cm(4)],
     [hip_adjustment |-> Cm(2), length_adjustment |-> Cm(5)]}

\* the generator the caller already has when it calls the factory
DressInputs == ModInputs \cup {<<[DefaultArgs EXCEPT !.size = Cm(46)], DefaultConstants>>}

DressInit ==
    /\ Alone
    /\ \E i \in DressInputs : Construct(i[1], i[2])

DressNext ==
    \/ \E size \in DressSizes, adj \in DressAdjustments : CreateALineDress(size, adj)
    \/ PlotPattern
    \/ \E adj \in PairAdjustments : GeneratePattern(adj)
    \/ \E adj \in PairAdjustments : ApplyAdjustments(adj)

DressSpec == DressInit /\ [][DressNext]_vars

----------------------------------------------------------------------------
(* Sequences of advanced adjustments on the default pattern *)

\* the six kinds of adjustment, alone and mixed; a length adjustment of 60 brings
\* the hip line up to the top edge
MixAdjustments ==
    {[waist_adjustment |-> Cm(4)],
     [hip_adjustment |-> Cm(2)],
     [chest_adjustment |-> Cm(4)],
     [shoulder_adjustment |-> Cm(1)],
     [length_adjustment |-> Cm(5)],
     [length_adjustment |-> Cm(60)],
     [armhole_adjustment |-> Cm(1)],
     [hip_adjustment |-> Cm(2), chest_adjustment |-> Cm(0 - 4)],
     [waist_adjustment |-> Cm(0 - 2), hip_adjustment |-> Cm(0 - 2),
      length_adjustment |-> Cm(0 - 5)]}

MixInit == Alone /\ Construct(DefaultArgs, DefaultConstants)

MixNext ==
    \/ GeneratePattern(NoAdjustments)
    \/ \E adj \in MixAdjustments : ApplyAdvancedAdjustments(adj)

MixSpec == MixInit /\ [][MixNext]_vars

----------------------------------------------------------------------------
(* save_measurements / load_measurements: floats as JSON text and back *)

\* a JSON number as written in the file: sign, integer part, digits after the point
Numeral(neg, ip, frac) == [neg |-> neg, ip |-> ip, frac |-> frac]

RECURSIVE Expand(_, _)
\* the decimal digits of the fraction f1 / 2^25 + f2 / 2^50, all of them (it ends)
Expand(f1, f2) ==
    IF f1 = 0 /\ f2 = 0 THEN <<>>
    ELSE LET p2 == 10 * f2
             p1 == 10 * f1 + (p2 \div Limb)
         IN  <<p1 \div Limb>> \o Expand(p1 % Limb, p2 % Limb)

\* the first n digits of s (a sequence built by \o is held element by element)
Take(s, n) == [i \in 1..n |-> IF i <= Len(s) THEN s[i] ELSE 0] \o <<>>

\* s, cut to n digits, is rounded away from zero (nearest, ties to even)
RoundsUp(s, n) ==
    /\ Len(s) > n
    /\ \/ s[n + 1] > 5
       \/ s[n + 1] = 5 /\ (Len(s) > n + 1 \/ s[n] % 2 = 1)

\* the decimal with n digits after the point nearest to ip + 0.s
Rounded(ip, s, n) ==
    LET t == Take(s, n)
    IN  IF ~RoundsUp(s, n) THEN Numeral(FALSE, ip, t)
        ELSE IF \A j \in 1..n : t[j] = 9
             THEN Numeral(FALSE, ip + 1, [i \in 1..n |-> 0] \o <<>>)
             ELSE Numeral(FALSE, ip,
                     [i \in 1..n |-> IF \A j \in (i + 1)..n : t[j] = 9
                                     THEN (t[i] + 1) % 10 ELSE t[i]] \o <<>>)

\* twice the decimal fraction 0.s, without its integer part; and that integer part
Doubled(s) ==
    [i \in 1..Len(s) |->
        (2 * s[i] + (IF i < Len(s) /\ s[i + 1] >= 5 THEN 1 ELSE 0)) % 10] \o <<>>
TopBit(s) == IF Len(s) > 0 /\ s[1] >= 5 THEN 1 ELSE 0

RECURSIVE Bits(_, _, _)
\* the next k binary digits of the decimal fraction 0.s, and what is left of it
Bits(s, k, acc) ==
    IF k = 0 THEN <<acc, s>> ELSE Bits(Doubled(s), k - 1, 2 * acc + TopBit(s))

\* float(text) as json.load does it: the double nearest to the decimal, ties to even
ParseFloat(t) ==
    LET b1 == Bits(t.frac, 25, 0)
        b2 == Bits(b1[2], 25, 0)
        guard == TopBit(b2[2])
        rest == Doubled(b2[2])
        sticky == \E i \in 1..Len(rest) : rest[i] # 0
        u == UlpOf(t.ip)
        r == b2[1] % u
        lo == b2[1] - r
        twice == 2 * r + guard
        up == twice > u \/ (twice = u /\ (sticky \/ (lo \div u) % 2 = 1))
        f2 == IF up THEN lo + u ELSE lo
        f1 == b1[1] + (f2 \div Limb)
    IN  <<t.ip + (f1 \div Limb), f1 % Limb, f2 % Limb>>

RECURSIVE Shortest(_, _, _)
\* the shortest decimal, of n digits after the point or more, that reads back as d
Shortest(d, s, n) ==
    LET cand == Rounded(d[1], s, n)
    IN  IF n >= Len(s) \/ ParseFloat(cand) = d THEN cand ELSE Shortest(d, s, n + 1)

\* a formatter that keeps twelve digits after the point
FloatReprTwelvePlaces(d) == Rounded(d[1], Expand(d[2], d[3]), 12)

\* float.__repr__, which json.dump uses: the shortest decimal that reads back as d
FloatRepr(d) == Shortest(d, Expand(d[2], d[3]), 1)

\* a length of the grid as a double, and back; measurements are entered in whole
\* or half centimetres, and every multiple of 1/16 cm is a double.  A double that
\* is no such multiple stays the double it is
Sixteenth == Limb \div 16
AsDouble(v) == <<v \div Scale, ((v % Scale) \div 15) * Sixteenth, 0>>
AsLength(d) ==
    IF d[3] = 0 /\ d[2] % Sixteenth = 0
    THEN d[1] * Scale + (d[2] \div Sixteenth) * 15
    ELSE d

FieldNames == DOMAIN DefaultArgs
\* the fields the model keeps as binary64 triples
FloatFields == {"hip_circumference", "chest_circumference"}

\* json.dump of one measurement
DumpField(k, v) ==
    IF k \in FloatFields THEN FloatRepr(v)
    ELSE [FloatRepr(AsDouble(Abs(v))) EXCEPT !.neg = v < 0]

\* json.load of one measurement
LoadField(k, t) ==
    IF k \in FloatFields THEN ParseFloat(t)
    ELSE LET v == AsLength(ParseFloat(t)) IN IF t.neg THEN 0 - v ELSE v

\* the document save_measurements writes; from is the record it was written from
\* (not part of the file: what the round trip is compared with)
Saved(mm, cvv) ==
    [keys |-> {"measurements", "calculated_values"},
     measurements |-> [k \in FieldNames |-> DumpField(k, mm[k])],
     from |-> Some(mm)]

\* files written by hand: one with two of the ten measurement fields, one without
\* the measurements key, one with a key Measurements does not know
Written(ks, ms) == [keys |-> ks, measurements |-> ms, from |-> Nothing]
HandWritten ==
    [f \in {"partial.json", "bare.json", "extra.json"} |->
        IF f = "partial.json"
        THEN Written({"measurements"},
                     [k \in {"size", "shoulder_width"} |->
                         IF k = "size" THEN Numeral(FALSE, 50, <<0>>)
                         ELSE Numeral(FALSE, 44, <<0>>)])
        ELSE IF f = "bare.json"
        THEN Written({"calculated_values"}, EmptyDict)
        ELSE Written({"measurements"},
                     [k \in {"size", "bust"} |-> Numeral(FALSE, 50, <<0>>)])]

FileNames == {"saved.json", "partial.json", "bare.json", "extra.json", "absent.json"}

\* generator.save_measurements(f)
SaveMeasurements(f) ==
    /\ files' = Update(files, [g \in {f} |-> Saved(m, cv)])
    /\ op' = "save_measurements"
    /\ outcome' = NoOutcome
    /\ arg' = f
    /\ UNCHANGED <<args, m, c, cv, points, nadj, src>>
    /\ UNCHANGED <<held, peer, orig, nmod>>

\* what PatternGenerator.load_measurements(f) does before it builds anything
LoadFailure(f) ==
    IF f \notin DOMAIN files
    THEN Raised("FileNotFoundError", f, "load_measurements")
    ELSE IF "measurements" \notin files[f].keys
    THEN Raised("KeyError", "measurements", "load_measurements")
    ELSE IF ~(DOMAIN files[f].measurements \subseteq FieldNames)
    THEN Raised("TypeError", "unexpected keyword argument", "load_measurements")
    ELSE Returned(EmptyDict)

\* the keyword arguments Measurements(**data['measurements']) receives, over the
\* dataclass defaults of the fields the file does not name
LoadedArgs(f) ==
    Update(DefaultArgs,
           [k \in DOMAIN files[f].measurements |-> LoadField(k, files[f].measurements[k])])

\* g = PatternGenerator.load_measurements(f): on success g is a new generator with
\* the default constants; on an exception the caller gets no generator and the one
\* it had is as it was
LoadMeasurements(f) ==
    LET res == LoadFailure(f)
    IN  /\ op' = "load_measurements"
        /\ outcome' = Ended(res)
        /\ arg' = f
        /\ IF res.exc # "none"
           THEN UNCHANGED <<args, m, c, cv, points, nadj, src>>
           ELSE /\ args' = LoadedArgs(f)
                /\ m' = PostInit(LoadedArgs(f))
                /\ c' = DefaultConstants
                /\ cv' = EmptyDict
                /\ points' = EmptyDict
                /\ nadj' = 0
                /\ src' = Some([file |-> f, from |-> files[f].from])
        /\ UNCHANGED <<held, peer, files, orig, nmod>>

\* generators whose measurements are saved: resolved from a size (50 gives the hip
\* 114.99999999999999), given explicitly, with a negative field, with other constants
StoreInputs ==
    {<<[DefaultArgs EXCEPT !.size = s], DefaultConstants>> : s \in Sizes}
        \cup {<<[DefaultArgs EXCEPT !.size = Cm(50), !.waist_circumference = HalfCm(165),
                                    !.hip_circumference = F64(120)], DefaultConstants>>,
              <<[DefaultArgs EXCEPT !.shoulder_bone = Cm(0 - 3)], DefaultConstants>>,
              <<[DefaultArgs EXCEPT !.size = Cm(50)], PairConstants>>}

StoreInit ==
    /\ held = NoHeld
    /\ peer = Nothing
    /\ files = HandWritten
    /\ orig = Nothing
    /\ nmod = 0
    /\ \E i \in StoreInputs : Construct(i[1], i[2])

StoreNext ==
    \/ \E f \in {"saved.json"} : SaveMeasurements(f)
    \/ \E f \in FileNames : LoadMeasurements(f)
    \/ \E adj \in PairAdjustments : GeneratePattern(adj)
    \/ \E adj \in PairAdjustments : ApplyAdjustments(adj)

StoreSpec == StoreInit /\ [][StoreNext]_vars

----------------------------------------------------------------------------
(* The command line and batch interface (pattern_interface.py) *)

\* a generator with measurements m0 and scalars cv1 after its generate_pattern(adj),
\* whose derivation ended as res; a plot_pattern after it changes nothing of this
Ran(a, adj, m0, cv1, res) ==
    [res |-> res, args |-> a, m |-> m0, cv |-> cv1,
     points |-> IF res.exc = "none" THEN ApplyAdjustmentsTo(res.value, adj) ELSE EmptyDict,
     nadj |-> IF res.exc = "none" /\ adj # NoAdjustments THEN 1 ELSE 0]

\* PatternGenerator(Measurements(...)) with the default constants and
\* generate_pattern(adj): the set of its one result, each step computed once
RunFor(a, adj) ==
    UNION {UNION {{Ran(a, adj, m0, cv1, res) :
                      res \in {CalculatePoints(m0, DefaultConstants, cv1)}} :
                  cv1 \in {CalculateBaseValues(EmptyDict, m0, DefaultConstants)}} :
           m0 \in {PostInit(a)}}

\* the generator r, read from source s, is the one the tool built last
Leaves(r, s) ==
    /\ args' = r.args
    /\ m' = r.m
    /\ c' = DefaultConstants
    /\ cv' = r.cv
    /\ points' = r.points
    /\ nadj' = r.nadj
    /\ src' = s

\* "adjustments = {}; if waist_adj != 0: ...; adjustments if adjustments else None"
FlagAdjustments(waist_adj, hip_adj, chest_adj) ==
    LET given == [waist_adjustment |-> waist_adj, hip_adjustment |-> hip_adj,
                  chest_adjustment |-> chest_adj]
        ks == {k \in DOMAIN given : given[k] # 0}
    IN  IF ks = {} THEN NoAdjustments ELSE [k \in ks |-> given[k]]

\* an exception a try/except of the interface caught: the tool printed its text
\* and ended normally
Reported(r, where) == [exc |-> "none", msg |-> r.msg, at |-> where]

\* main() with --load f: load_from_file catches what load_measurements raises and
\* returns None; generate_pattern and plot_pattern on the loaded generator run
\* outside any try
MainLoad(f, adj) ==
    \E lres \in {LoadFailure(f)} :
        /\ op' = "main --load"
        /\ arg' = f
        /\ IF lres.exc # "none"
           THEN /\ outcome' = Reported(lres, "load_from_file")
                /\ UNCHANGED <<args, m, c, cv, points, nadj, src>>
           ELSE \E a \in {LoadedArgs(f)} : \E r \in RunFor(a, adj) :
                    /\ outcome' = Ended(r.res)
                    /\ Leaves(r, Some([file |-> f, from |-> files[f].from]))
        /\ UNCHANGED <<held, peer, files, orig, nmod>>

\* generate_pattern_from_size(size, adj, output_file): no try anywhere in it
GeneratePatternFromSize(size, adj, name) ==
    \E a \in {[DefaultArgs EXCEPT !.size = size]} : \E r \in RunFor(a, adj) :
        /\ op' = name
        /\ arg' = adj
        /\ outcome' = Ended(r.res)
        /\ Leaves(r, NoSource)
        /\ UNCHANGED <<held, peer, files, orig, nmod>>

\* main() with --size: generate_pattern_from_size, then with --show a second
\* plot_pattern of the generator it returned
MainSize(size, adj) == GeneratePatternFromSize(size, adj, "main --size")

\* quick_generate(size, waist_adj, hip_adj, chest_adj)
QuickGenerate(size, waist_adj, hip_adj, chest_adj) ==
    GeneratePatternFromSize(size, FlagAdjustments(waist_adj, hip_adj, chest_adj),
                            "quick_generate")

\* the index of the first size of the list whose derivation raises, 0 if none does
RECURSIVE FirstFailing(_, _)
FirstFailing(sizes, i) ==
    IF i > Len(sizes) THEN 0
    ELSE IF \E a \in {[DefaultArgs EXCEPT !.size = sizes[i]]} :
                \E r \in RunFor(a, NoAdjustments) : r.res.exc # "none"
    THEN i
    ELSE FirstFailing(sizes, i + 1)

\* batch_generate(sizes): generate_pattern_from_size for each size in turn, no
\* try around it; the generator the tool built last is that of the last size
\* reached
BatchGenerate(sizes) ==
    \E stop \in {FirstFailing(sizes, 1)} :
        /\ op' = "batch_generate"
        /\ arg' = sizes
        /\ IF sizes = <<>>
           THEN /\ outcome' = NoOutcome
                /\ UNCHANGED <<args, m, c, cv, points, nadj, src>>
           ELSE \E last \in {IF stop = 0 THEN Len(sizes) ELSE stop} :
                \E a \in {[DefaultArgs EXCEPT !.size = sizes[last]]} :
                \E r \in RunFor(a, NoAdjustments) :
                    /\ outcome' = Ended(r.res)
                    /\ Leaves(r, NoSource)
        /\ UNCHANGED <<held, peer, files, orig, nmod>>

\* PatternInterface.interactive_mode(): measurements from the prompts, adjustments
\* from the prompts, generate_pattern, plot_pattern, save_measurements when the
\* user answers y, all inside one try whose "except Exception" prints the error
InteractiveMode(a, adj, save_data) ==
    \E r \in RunFor(a, adj) :
        /\ op' = "interactive_mode"
        /\ arg' = adj
        /\ outcome' = IF r.res.exc = "none" THEN NoOutcome
                      ELSE Reported(r.res, "interactive_mode")
        /\ Leaves(r, NoSource)
        /\ files' = IF r.res.exc = "none" /\ save_data
                    THEN Update(files, [g \in {"dress_pattern_measurements.json"} |->
                                           Saved(r.m, r.cv)])
                    ELSE files
        /\ UNCHANGED <<held, peer, orig, nmod>>

\* what the tool is run with
CliSizes == {Cm(50)}
CliFlags == {FlagAdjustments(w, 0, 0) : w \in {0, Cm(4)}}
CliPrompts == {GetUserMeasurements(Typed(Cm(50)), Blank, Blank, Blank, Blank)}
CliFiles == FileNames \cup {"dress_pattern_measurements.json"}
CliBatches == {<<>>, <<Cm(38), Cm(50)>>}

\* the generators of the library user whose save_measurements writes saved.json:
\* the default one, and one whose shoulder_bone of -3 makes the derivation raise
CliInputs ==
    {<<DefaultArgs, DefaultConstants>>,
     <<[DefaultArgs EXCEPT !.shoulder_bone = Cm(0 - 3)], DefaultConstants>>}

CliInit ==
    /\ held = NoHeld
    /\ peer = Nothing
    /\ files = HandWritten
    /\ orig = Nothing
    /\ nmod = 0
    /\ \E i \in CliInputs : Construct(i[1], i[2])

CliNext ==
    \/ \E f \in {"saved.json"} : SaveMeasurements(f)
    \/ \E f \in CliFiles, adj \in CliFlags : MainLoad(f, adj)
    \/ \E size \in CliSizes, adj \in CliFlags : MainSize(size, adj)
    \/ \E size \in CliSizes, w \in {0, Cm(4)} : QuickGenerate(size, w, 0, 0)
    \/ \E sizes \in CliBatches : BatchGenerate(sizes)
    \/ \E a \in CliPrompts, adj \in CliFlags, save_data \in BOOLEAN :
           InteractiveMode(a, adj, save_data)

CliSpec == CliInit /\ [][CliNext]_vars

----------------------------------------------------------------------------
(* Properties *)

ResolverFields ==
    {"shoulder_width", "waist_circumference", "hip_circumference", "chest_circumference"}

\* the hardcoded default of each resolver field
FieldDefault(f) ==
    CASE f = "shoulder_width" -> DefaultShoulderWidth
      [] f = "waist_circumference" -> DefaultWaist
      [] f = "hip_circumference" -> DefaultHip
      [] f = "chest_circumference" -> DefaultChest

\* the doubles Python prints as 87.39999999999999, 83.60000000000001,
\* 114.99999999999999 (115 - 2^-46) and 110.00000000000001 (110 + 2^-46)
Hip38 == <<87, 13421772, 26843536>>
Chest38 == <<83, 20132659, 6710896>>
Hip50 == <<114, Limb - 1, Limb - 16>>
Chest50 == <<110, 0, 16>>

\* size x ratio as the specification reads it, the double written 115.0, 110.0, 87.4, 83.6
DecimalProduct(f, size) ==
    CASE f = "shoulder_width" -> size
      [] f = "waist_circumference" -> 2 * size
      [] f = "hip_circumference" ->
            IF size = Cm(50) THEN F64(115)
            ELSE IF size = Cm(38) THEN <<87, 13421772, 26843552>> ELSE F64(92)
      [] f = "chest_circumference" ->
            IF size = Cm(50) THEN F64(110)
            ELSE IF size = Cm(38) THEN <<83, 20132659, 6710880>> ELSE F64(88)

\* size x ratio as the float product the interpreter computes, tabulated
BinaryProduct(f, size) ==
    CASE f = "shoulder_width" -> size
      [] f = "waist_circumference" -> 2 * size
      [] f = "hip_circumference" ->
            IF size = Cm(50) THEN Hip50 ELSE IF size = Cm(38) THEN Hip38 ELSE F64(92)
      [] f = "chest_circumference" ->
            IF size = Cm(50) THEN Chest50 ELSE IF size = Cm(38) THEN Chest38 ELSE F64(88)

\* C1 as stated: Measurements(size=50) yields shoulder 50.0, waist 100.0, hip 115.0
\* and chest 110.0, and a field left at its default at a size other than 40 becomes
\* the decimal product size x ratio.
C1_DecimalDefaults ==
    /\ args = [DefaultArgs EXCEPT !.size = Cm(50)] =>
          /\ m.shoulder_width = Cm(50)
          /\ m.waist_circumference = Cm(100)
          /\ m.hip_circumference = F64(115)
          /\ m.chest_circumference = F64(110)
    /\ \A f \in ResolverFields :
          (args.size # DefaultSize /\ args[f] = FieldDefault(f)) =>
              m[f] = DecimalProduct(f, args.size)

\* C1 amended: Measurements(size=50) yields shoulder 50.0 and waist 100.0 exactly,
\* and hip and chest equal to the float products 50 * 2.3 = 114.99999999999999 and
\* 50 * 2.2 = 110.00000000000001; for any size other than 40 a field left at its
\* default becomes the float product size * ratio.
C1_FloatDefaults ==
    /\ args = [DefaultArgs EXCEPT !.size = Cm(50)] =>
          /\ m.shoulder_width = Cm(50)
          /\ m.waist_circumference = Cm(100)
          /\ m.hip_circumference = Hip50
          /\ m.chest_circumference = Chest50
    /\ \A f \in ResolverFields :
          (args.size # DefaultSize /\ args[f] = FieldDefault(f)) =>
              m[f] = BinaryProduct(f, args.size)

C1_Witness ==
    /\ args = [DefaultArgs EXCEPT !.size = Cm(50)]
    /\ op = "construct"
    /\ m.hip_circumference = Hip50
    /\ m.waist_circumference = Cm(100)

C3_FullySpecifiedUnchanged ==
    (op = "construct" /\ \A f \in ResolverFields : args[f] # FieldDefault(f)) => m = args

C3_Witness ==
    /\ op = "construct"
    /\ args.size = Cm(50)
    /\ \A f \in ResolverFields : args[f] # FieldDefault(f)
    /\ m = args

----------------------------------------------------------------------------
(* Derivation *)

Max(a, b) == IF a >= b THEN a ELSE b

\* shoulder_bone + shoulder_add of the generator's current inputs
ShoulderLength == m.shoulder_bone + c.shoulder_add

\* generate_pattern was the last call on the generator, and it returned
Generated == op = "generate_pattern"
Succeeded == Generated /\ outcome.exc = "none"

\* C4 as stated: whenever shoulder_bone + shoulder_add exceeds both drops,
\* generate_pattern succeeds and the point map holds exactly the fixed set of 44
\* labels, each once, every coordinate a finite number.
C4_FortyFourLabels ==
    (Generated /\ ShoulderLength > Max(c.back_shoulder_drop, c.front_shoulder_drop)) =>
        /\ outcome.exc = "none"
        /\ DOMAIN points = Labels
        /\ Cardinality(DOMAIN points) = 44
        /\ \A l \in DOMAIN points : points[l] \in Int \X Int

\* C4 amended: whenever shoulder_bone + shoulder_add exceeds the magnitude of both
\* drops, generate_pattern succeeds and the point map holds exactly the fixed set of
\* 47 labels, each once, every coordinate a finite number.
C4_CompletePointMap ==
    (Generated /\ ShoulderLength > Max(Abs(c.back_shoulder_drop), Abs(c.front_shoulder_drop))) =>
        /\ outcome.exc = "none"
        /\ DOMAIN points = Labels
        /\ Cardinality(DOMAIN points) = 47
        /\ Len(LabelSeq) = 47
        /\ \A l \in DOMAIN points : points[l] \in Int \X Int

C4_Witness ==
    /\ Succeeded
    /\ ShoulderLength > Max(Abs(c.back_shoulder_drop), Abs(c.front_shoulder_drop))
    /\ Cardinality(DOMAIN points) = 47
    /\ m.shoulder_bone = Cm(2)

\* C5: whenever shoulder_bone + shoulder_add <= back_shoulder_drop, equality
\* included, derivation raises the domain error of the back-shoulder leg-solve
\* (point P) and completes no point map.
C5_BackLegRaises ==
    (Generated /\ ShoulderLength <= c.back_shoulder_drop) =>
        (outcome.exc # "none" /\ outcome.at = "horiz_back")

\* the first negative radicand or zero denominator calculate_points meets, by the
\* point it belongs to ("" when it meets none)
DegenerateAt ==
    IF RadicandBack(c, cv) < 0 THEN "P"
    ELSE IF RadicandFront(c, cv) < 0 THEN "T"
    ELSE IF Sqrt(RadicandBack(c, cv)) = 0 THEN "AC"
    ELSE IF cv.shoulder_length = 0 THEN "AD"
    ELSE ""

\* C6: every negative radicand (P, T) and every zero denominator (AC, AD) met
\* during derivation ends in a raised error; none is coerced into a coordinate.
C6_DegenerateRaises ==
    (Generated /\ DegenerateAt # "") => outcome.exc # "none"

\* C7: when derivation fails inside generate_pattern the error reaches the caller
\* and the generator's point map is what it was before the call, empty or complete,
\* never a subset of the labels.
C7_NoPartialMap ==
    [][(op' = "generate_pattern" /\ outcome'.exc # "none") =>
          /\ outcome'.exc = "ValueError"
          /\ points' = points
          /\ DOMAIN points' \in {{}, Labels}]_vars

C7_Witness ==
    /\ Generated
    /\ outcome.exc = "ValueError"
    /\ DOMAIN points = Labels

\* C8: after calculate_base_values, back_width = (width - mid_back_seam - buttons)/2
\* + mid_back_seam and half_arm = armhole_value/2, with width the sum of
\* shoulder_width, rule_add, buttons and the three seams and armhole_value =
\* (shoulder_width + rule_add)/4 + 2; no derived scalar is None.
C8_DerivedScalars ==
    cv # EmptyDict =>
        /\ DOMAIN cv = {"shoulder_length", "armhole_depth", "width", "back_width",
                        "armhole_value", "back_shoulder_length", "u_rule", "half_arm"}
        /\ \A k \in DOMAIN cv : cv[k] # None
        /\ cv.width = m.shoulder_width + c.rule_add + c.buttons + c.mid_back_seam
                      + c.side_seam_back + c.side_seam_front
        /\ 4 * (cv.armhole_value - Cm(2)) = m.shoulder_width + c.rule_add
        /\ 2 * (cv.back_width - c.mid_back_seam) = cv.width - c.mid_back_seam - c.buttons
        /\ 2 * cv.half_arm = cv.armhole_value

C8_Witness ==
    /\ Generated
    /\ m.shoulder_width = Cm(44)
    /\ cv.width = Cm(60)
    /\ cv.back_width = Cm(29)
    /\ cv.half_arm = DivBy(Cm(31), 4)

\* C9: at size 40 with every default, width = 56.0, back_width = 27.0,
\* armhole_value = 14.5, half_arm = 7.25, back_shoulder_length = 23.0, u_rule = 12.0,
\* A = (0, 85.0) and G = (0, 59.0).
C9_Size40 ==
    (Succeeded /\ m = DefaultArgs /\ c = DefaultConstants) =>
        /\ cv.width = Cm(56)
        /\ cv.back_width = Cm(27)
        /\ cv.armhole_value = HalfCm(29)
        /\ 4 * cv.half_arm = Cm(29)
        /\ cv.back_shoulder_length = Cm(23)
        /\ cv.u_rule = Cm(12)
        /\ points["A"] = <<0, Cm(85)>>
        /\ points["G"] = <<0, Cm(59)>>

C9_Witness ==
    /\ Succeeded
    /\ m = DefaultArgs
    /\ c = DefaultConstants
    /\ points["G"] = <<0, Cm(59)>>

\* squared distance between two points, and the squares of the inputs
DistSq(p, q) == (p[1] - q[1]) * (p[1] - q[1]) + (p[2] - q[2]) * (p[2] - q[2])
Sq(x) == x * x

\* C10 as stated: whenever derivation succeeds, P = (N.x - h_back, jacket_length) and
\* T = (S.x - h_front, jacket_length - front_shoulder_drop) with h_back^2 =
\* shoulder_length^2 - back_shoulder_drop^2 and h_front^2 = shoulder_length^2 -
\* front_shoulder_drop^2, both h >= 0, so |PN|^2 = |ST|^2 = shoulder_length^2.
C10_ExactLegs ==
    Succeeded =>
        LET h_back == points["N"][1] - points["P"][1]
            h_front == points["S"][1] - points["T"][1]
        IN  /\ points["P"][2] = m.jacket_length
            /\ points["T"][2] = m.jacket_length - c.front_shoulder_drop
            /\ h_back >= 0 /\ h_front >= 0
            /\ Sq(h_back) = Sq(ShoulderLength) - Sq(c.back_shoulder_drop)
            /\ Sq(h_front) = Sq(ShoulderLength) - Sq(c.front_shoulder_drop)
            /\ DistSq(points["P"], points["N"]) = Sq(ShoulderLength)
            /\ DistSq(points["S"], points["T"]) = Sq(ShoulderLength)

\* h is the representable number nearest the square root of x
NearestRoot(h, x) == h >= 0 /\ Abs(Sq(h) - x) <= h

\* C10 amended: whenever derivation succeeds, P = (N.x - h_back, jacket_length) and
\* T = (S.x - h_front, jacket_length - front_shoulder_drop) with h_back and h_front
\* the rounded square roots of shoulder_length^2 - back_shoulder_drop^2 and
\* shoulder_length^2 - front_shoulder_drop^2, both >= 0; |PN|^2 and |ST|^2 equal
\* shoulder_length^2 up to that rounding, and exactly when the root is exact.
C10_RoundedLegs ==
    Succeeded =>
        LET h_back == points["N"][1] - points["P"][1]
            h_front == points["S"][1] - points["T"][1]
            rad_back == Sq(ShoulderLength) - Sq(c.back_shoulder_drop)
            rad_front == Sq(ShoulderLength) - Sq(c.front_shoulder_drop)
        IN  /\ points["P"][2] = m.jacket_length
            /\ points["T"][2] = m.jacket_length - c.front_shoulder_drop
            /\ NearestRoot(h_back, rad_back)
            /\ NearestRoot(h_front, rad_front)
            /\ Abs(DistSq(points["P"], points["N"]) - Sq(ShoulderLength)) <= h_back
            /\ Abs(DistSq(points["S"], points["T"]) - Sq(ShoulderLength)) <= h_front
            /\ (\E r \in 0 .. ShoulderLength : Sq(r) = rad_back) =>
                  DistSq(points["P"], points["N"]) = Sq(ShoulderLength)
            /\ (\E r \in 0 .. ShoulderLength : Sq(r) = rad_front) =>
                  DistSq(points["S"], points["T"]) = Sq(ShoulderLength)

C10_Witness ==
    /\ Succeeded
    /\ ShoulderLength = Cm(5)
    /\ points["N"][1] - points["P"][1] = Cm(3)
    /\ points["S"][1] - points["T"][1] = Cm(4)
    /\ DistSq(points["P"], points["N"]) = Sq(Cm(5))

----------------------------------------------------------------------------
(* Points AC and AD *)

\* twice the signed area of the triangle p, q, r: 0 when the three are collinear
Cross(p, q, r) == (r[1] - p[1]) * (q[2] - p[2]) - (r[2] - p[2]) * (q[1] - p[1])

\* q is the rounded quotient of a / b on the grid, as Python's a / b is the rounded quotient
RoundedQuotient(q, a, b) == 2 * Abs(q * b - a * Scale) <= Abs(b)

\* r is the rounded product of a * b on the grid
RoundedProduct(r, a, b) == 2 * Abs(r * Scale - a * b) <= Scale

\* the area left by the roundings of t (a quotient) and t * dy (a product) in AC.y
ParamSlack(dx, dy) == ((Abs(dy) + Scale) * Abs(dx)) \div (2 * Scale)

\* C11: AC.x = Z.x; when N.x differs from P.x, AC.y = P.y + t * (N.y - P.y) with
\* t = (Z.x - P.x) / (N.x - P.x), so AC lies on line PN (to the rounding of the two
\* float operations); when N.x = P.x, which is when shoulder_length equals
\* back_shoulder_drop in magnitude, t = 0, AC.y = P.y and no error is raised.
C11_LineIntersection ==
    /\ Succeeded =>
          LET P == points["P"]
              N == points["N"]
              AC == points["AC"]
              dx == N[1] - P[1]
              dy == N[2] - P[2]
          IN  /\ AC[1] = points["Z"][1]
              /\ dx # 0 =>
                    /\ \E t \in {RoundDiv((AC[1] - P[1]) * Scale, dx)} :
                          /\ RoundedQuotient(t, AC[1] - P[1], dx)
                          /\ RoundedProduct(AC[2] - P[2], t, dy)
                    /\ Abs(Cross(P, N, AC)) <= ParamSlack(dx, dy)
              /\ dx = 0 => AC[2] = P[2]
              /\ dx = 0 <=> Sq(ShoulderLength) = Sq(c.back_shoulder_drop)
    /\ (Generated /\ Sq(ShoulderLength) = Sq(c.back_shoulder_drop)
          /\ Sq(ShoulderLength) >= Sq(c.front_shoulder_drop)) => outcome.exc = "none"

C11_Witness ==
    /\ Succeeded
    /\ ShoulderLength = Cm(5)
    /\ points["N"][1] = points["P"][1]
    /\ points["N"][2] # points["P"][2]
    /\ points["AC"] = <<points["Z"][1], points["P"][2]>>

\* the step from AC to AD, and whether it has length 1 to the rounding of its components
Step == <<points["AD"][1] - points["AC"][1], points["AD"][2] - points["AC"][2]>>
UnitLength(u) == Sq(Scale - 1) <= Sq(u[1]) + Sq(u[2]) /\ Sq(u[1]) + Sq(u[2]) <= Sq(Scale + 1)

\* AD is on line PN, to the rounding of AC.y and of the two components of the step
OnLinePN(q) ==
    LET P == points["P"]
        N == points["N"]
        dx == N[1] - P[1]
        dy == N[2] - P[2]
    IN  Abs(Cross(P, N, q)) <= ParamSlack(dx, dy) + ((Abs(dx) + Abs(dy)) \div 2) + 1

----------------------------------------------------------------------------
(* Frame lines and darts *)

\* C13: after derivation G = (0, jacket_length - armhole_depth), E = (0, jacket_length
\* - waist_from_A), F = (0, jacket_length - (waist_from_A + hip_from_waist)); G', E',
\* F' have x = width and the y of their left point; A = (0, jacket_length), B = (0, 0),
\* C = (width, 0), D = (width, jacket_length).
C13_FrameLines ==
    Succeeded =>
        /\ points["G"] = <<0, m.jacket_length - cv.armhole_depth>>
        /\ points["E"] = <<0, m.jacket_length - m.waist_from_A>>
        /\ points["F"] = <<0, m.jacket_length - (m.waist_from_A + m.hip_from_waist)>>
        /\ points["G'"] = <<cv.width, points["G"][2]>>
        /\ points["E'"] = <<cv.width, points["E"][2]>>
        /\ points["F'"] = <<cv.width, points["F"][2]>>
        /\ points["A"] = <<0, m.jacket_length>>
        /\ points["B"] = <<0, 0>>
        /\ points["C"] = <<cv.width, 0>>
        /\ points["D"] = <<cv.width, m.jacket_length>>

C13_Witness ==
    /\ Succeeded
    /\ m.shoulder_width = Cm(50)
    /\ points["E'"] = <<Cm(66), Cm(43)>>
    /\ points["F'"] = <<Cm(66), Cm(24)>>
    /\ points["G"] = <<0, Cm(54)>>

----------------------------------------------------------------------------
(* Generations of one generator *)

\* the point map derived from measurements mm and constants cc by a generator that
\* has computed nothing before
FreshMap(mm, cc) == PointsOf(mm, cc, CalculateBaseValues(EmptyDict, mm, cc))

\* C16: whatever generate_pattern and apply_adjustments calls came before, the map
\* generate_pattern(adj) returns is the freshly derived base map with adj applied
\* exactly once: adjustments of earlier calls do not accumulate in it.
C16_NoAccumulation ==
    Succeeded =>
        /\ points = ApplyAdjustmentsTo(FreshMap(m, c), arg)
        /\ "waist_adjustment" \in DOMAIN arg =>
              /\ 4 * (points["X"][1] - FreshMap(m, c)["X"][1]) = arg["waist_adjustment"]
              /\ 4 * (FreshMap(m, c)["X'"][1] - points["X'"][1]) = arg["waist_adjustment"]
        /\ "waist_adjustment" \notin DOMAIN arg => points = FreshMap(m, c)

C16_Witness ==
    /\ Succeeded
    /\ arg = [waist_adjustment |-> Cm(4)]
    /\ m = DefaultArgs /\ c = DefaultConstants
    /\ points["X"] = <<HalfCm(51), Cm(43)>>
    /\ points["X'"] = <<HalfCm(57), Cm(43)>>

\* generate_pattern was the last call on the generator out of focus, and it returned
PeerSucceeded ==
    peer # Nothing /\ peer[1].op = "generate_pattern" /\ peer[1].outcome.exc = "none"

\* C15: two generators with equal measurements and equal constants return equal
\* derived scalars and equal point maps from generate_pattern (called with the same
\* adjustments), whatever was created, generated or adjusted before or in between.
C15_Deterministic ==
    (Succeeded /\ PeerSucceeded /\ m = peer[1].m /\ c = peer[1].c /\ arg = peer[1].arg) =>
        (cv = peer[1].cv /\ points = peer[1].points)

C15_Witness ==
    /\ Succeeded /\ PeerSucceeded
    /\ m = peer[1].m /\ c = peer[1].c /\ arg = peer[1].arg
    /\ args # peer[1].args
    /\ arg # NoAdjustments
    /\ points = peer[1].points
    /\ points # EmptyDict

\* C17: each generate_pattern call creates a new derived-scalars map and a new point
\* map, so the scalars map and the point map a caller kept from an earlier call are
\* not altered by a later generate_pattern call.
C17_FreshStructures ==
    [][(held # NoHeld /\ op' = "generate_pattern") =>
          (ScalarsKept' = ScalarsKept /\ PointsKept' = PointsKept)]_vars

\* the half of C17 that concerns the point map alone
PointMapKeptIntact ==
    [][(held # NoHeld /\ op' = "generate_pattern") => PointsKept' = PointsKept]_vars

----------------------------------------------------------------------------
(* The modifier and the generator's inputs *)

\* C18: no operation on a generator or its modifier (generate_pattern,
\* apply_adjustments, apply_advanced_adjustments, apply_design_variations) changes a
\* field of the Measurements or PatternConstants record the generator was given.
C18_InputsImmutable ==
    [][m' = m /\ c' = c]_vars

\* what the modifier does leave alone: the constants, and every measurement but
\* jacket_length
InputsKeptButLength ==
    [][c' = c /\ [m' EXCEPT !.jacket_length = m.jacket_length] = m]_vars

----------------------------------------------------------------------------
(* Persistence *)

\* the generator came from load_measurements of a file that save_measurements
\* wrote; Original is the record that was saved
LoadedFromSaved == src # NoSource /\ src[1].from # Nothing
Original == src[1].from[1]

\* C19: save_measurements followed by load_measurements reconstructs the saved
\* Measurements record field for field (the text written for each float reads back
\* as that float, and the resolver run by the reload changes nothing), and
\* generate_pattern on the loaded generator gives the point map derived from the
\* original record with the loaded generator's constants.
C19_RoundTrip ==
    /\ (op = "load_measurements" /\ outcome.exc = "none" /\ LoadedFromSaved)
          => m = Original
    /\ (op = "generate_pattern" /\ outcome.exc = "none" /\ LoadedFromSaved)
          => points = ApplyAdjustmentsTo(FreshMap(Original, c), arg)

\* a size-50 record, whose hip is the product 50 * 2.3 = 114.99999999999999, has
\* been saved, loaded and derived from
C19_Witness ==
    /\ op = "generate_pattern"
    /\ outcome.exc = "none"
    /\ LoadedFromSaved
    /\ Original.size = Cm(50)
    /\ Original.hip_circumference = FloatMul(Cm(50), HipRatio)
    /\ files["saved.json"].measurements["hip_circumference"].ip = 114
    /\ points # EmptyDict

\* the file exists and a measurement field is absent from it
FieldAbsent(f) ==
    /\ f \in DOMAIN files
    /\ \/ "measurements" \notin files[f].keys
       \/ \E k \in FieldNames : k \notin DOMAIN files[f].measurements

\* C20: load_measurements of persisted data in which a measurement field is absent
\* ends in an error surfaced to its caller: no default is substituted for the
\* absent field and no generator is returned.
C20_MissingFieldError ==
    (op = "load_measurements" /\ FieldAbsent(arg)) => outcome.exc # "none"

\* the one absence that is an error: a file without the measurements key
MissingKeyRaises ==
    (op = "load_measurements" /\ arg \in DOMAIN files
        /\ "measurements" \notin files[arg].keys) => outcome.exc = "KeyError"

\* what happens instead when single fields are absent: the dataclass defaults fill
\* them and the resolver derives from size
DefaultsSubstituted ==
    (op = "load_measurements" /\ arg = "partial.json")
        => /\ outcome.exc = "none"
           /\ m = PostInit([DefaultArgs EXCEPT !.size = Cm(50), !.shoulder_width = Cm(44)])

----------------------------------------------------------------------------
(* The modifier's adjustments *)

\* the step is a successful apply_advanced_adjustments call, the first modifier
\* call on a pattern that generate_pattern has derived
FirstAdvancedCall ==
    /\ op' = "apply_advanced_adjustments"
    /\ outcome'.exc = "none"
    /\ points # EmptyDict
    /\ nmod = 0

\* C23: after apply_advanced_adjustments({'length_adjustment': d}) on a generated
\* pattern the height A.y - B.y is the original jacket_length + d, which is also
\* the updated measurements.jacket_length, and the top-edge points keep their
\* coordinates.
C23_LengthAdjustment ==
    [][(FirstAdvancedCall /\ "length_adjustment" \in DOMAIN arg')
          => /\ points'["A"][2] - points'["B"][2] = m.jacket_length + arg'["length_adjustment"]
             /\ points'["A"][2] - points'["B"][2] = m'.jacket_length
             /\ \A l \in TopEdge : points'[l] = points[l]]_vars

\* what the call does: the recorded length grows by d and the top edge stays, but
\* the hem B rises by d, so the drawn height shrinks by d
LengthRaisesHem ==
    [][(FirstAdvancedCall /\ "length_adjustment" \in DOMAIN arg')
          => /\ m'.jacket_length = m.jacket_length + arg'["length_adjustment"]
             /\ points'["B"][2] = points["B"][2] + arg'["length_adjustment"]
             /\ points'["A"] = points["A"]
             /\ \A l \in TopEdge : points'[l] = points[l]]_vars

----------------------------------------------------------------------------
(* PatternGenerator.apply_adjustments: what it changes *)

\* the quarter of the waist adjustment of map adj, 0 when it has none
WaistQuarter(adj) ==
    IF "waist_adjustment" \in DOMAIN adj THEN DivBy(adj["waist_adjustment"], 4) ELSE 0

HipOnlyApplied ==
    /\ op = "apply_adjustments"
    /\ points # EmptyDict
    /\ DOMAIN arg = {"hip_adjustment"}

\* C26: for the same waist_adjustment w applied to the same base pattern,
\* generate_pattern({'waist_adjustment': w}) and
\* apply_advanced_adjustments({'waist_adjustment': w}) give X and X' the same
\* coordinates.
C26_WaistImplementationsAgree ==
    [][(FirstAdvancedCall /\ points = FreshMap(m, c) /\ "waist_adjustment" \in DOMAIN arg')
          => /\ points'["X"] = ApplyAdjustmentsTo(FreshMap(m, c), arg')["X"]
             /\ points'["X'"] = ApplyAdjustmentsTo(FreshMap(m, c), arg')["X'"]]_vars

\* what the two do: the generator moves X by +w/4 and X' by -w/4, the modifier moves
\* X by -w/4 and X' by +w/4
WaistImplementationsMirrored ==
    [][(FirstAdvancedCall /\ points = FreshMap(m, c) /\ "waist_adjustment" \in DOMAIN arg')
          => /\ points'["X"][1] - points["X"][1]
                  = points["X"][1] - ApplyAdjustmentsTo(points, arg')["X"][1]
             /\ points'["X'"][1] - points["X'"][1]
                  = points["X'"][1] - ApplyAdjustmentsTo(points, arg')["X'"][1]
             /\ points'["X"][1] # points["X"][1]]_vars

\* the points calculate_points puts on the armhole line
ArmholeLine == {"G", "G'", "I", "J", "K", "U", "AB"}

\* C27: after apply_advanced_adjustments with a nonzero armhole_adjustment on a
\* generated pattern, the points of the armhole line (G, G', I, J, K, U, AB) still
\* share one y coordinate, jacket_length minus the updated armhole_depth.
C27_ArmholeLineAligned ==
    [][(FirstAdvancedCall /\ "armhole_adjustment" \in DOMAIN arg'
           /\ arg'["armhole_adjustment"] # 0)
          => \A l \in ArmholeLine : points'[l][2] = m'.jacket_length - cv'.armhole_depth]_vars

\* before the call the seven points do share the y of the armhole line
ArmholeLineDerived ==
    Succeeded => \A l \in ArmholeLine : points[l][2] = m.jacket_length - cv.armhole_depth

\* what the call does: G, G' and I are put on the new line, J, K, U and AB stay
\* where the length adjustment of the same call, if any, left them
ArmholeLineSplit ==
    [][(FirstAdvancedCall /\ "armhole_adjustment" \in DOMAIN arg'
           /\ arg'["armhole_adjustment"] # 0)
          => /\ \A l \in {"G", "G'", "I"} :
                   points'[l][2] = m'.jacket_length - cv'.armhole_depth
             /\ \A l \in {"J", "K", "U", "AB"} :
                   /\ points'[l][2] = points[l][2] + (m'.jacket_length - m.jacket_length)
                   /\ points'[l][2] # m'.jacket_length - cv'.armhole_depth]_vars

\* the armhole verticals J-J' and K-K' of point map pts are vertical
Verticals(pts) == pts["J'"][1] = pts["J"][1] /\ pts["K'"][1] = pts["K"][1]

ClearOfHipLine(pts) ==
    \A l \in {"J", "J'", "K", "K'"} : Abs(pts[l][2] - pts["F"][2]) >= Cm(2)

\* the point map an apply_advanced_adjustments call starts from
BaseOfCall == IF points = EmptyDict THEN FreshMap(m, c) ELSE points

C29_Snapshot ==
    [][/\ (op' = "apply_advanced_adjustments" /\ outcome'.exc = "none" /\ orig = Nothing)
            => orig' = Some(BaseOfCall)
       /\ (op' # "apply_advanced_adjustments" \/ outcome'.exc # "none" \/ orig # Nothing)
            => orig' = orig]_vars

\* the snapshot was taken, two modifier calls were made, the pattern was then
\* regenerated, and the points now differ from the snapshot
C29_Witness ==
    /\ orig # Nothing
    /\ nmod = 2
    /\ op = "generate_pattern"
    /\ outcome.exc = "none"
    /\ points # orig[1]

----------------------------------------------------------------------------
(* The dart_depth constant *)

\* the constants c with dart_depth put back to its default
DefaultDepth == [c EXCEPT !.dart_depth = DefaultConstants.dart_depth]

----------------------------------------------------------------------------
(* The generator and the legacy script *)

\* C24: for the default measurements (size 40) and the default constants, the point
\* map generate_pattern returns has the same label set, and for every label the same
\* coordinate, as the points dict of the legacy script pattern_making.py.
C24_LegacyEquivalence ==
    (Succeeded /\ arg = NoAdjustments /\ m = PostInit(DefaultArgs) /\ c = DefaultConstants)
        => /\ DOMAIN points = DOMAIN LegacyPoints
           /\ \A l \in DOMAIN points : points[l] = LegacyPoints[l]

\* generate_pattern() has run on the default generator
C24_Witness ==
    /\ Succeeded
    /\ arg = NoAdjustments
    /\ m = PostInit(DefaultArgs)
    /\ c = DefaultConstants
    /\ points["A"] = <<0, Cm(85)>>
    /\ points["Y'''"] = LegacyPoints["Y'''"]

----------------------------------------------------------------------------
(* The A-line dress *)

\* point map pts is populated and carries the A-line flare of a pattern of width w:
\* C moved right by 2 (hem increase 8 / 4) and B moved left by 2
Flared(pts, w) ==
    /\ pts # EmptyDict
    /\ pts["C"][1] = w + Cm(2)
    /\ pts["B"][1] = 0 - Cm(2)

\* the width of the base pattern of the generator
BaseWidth == FirstValues(m, c).width

\* C22: create_a_line_dress(size, adjustments), for every size and for adjustments
\* given or omitted, returns a generator whose point map is populated with C moved
\* right by 2 and B moved left by 2 relative to the base pattern, and the flare is
\* still present in what plot_pattern subsequently draws.
C22_ALineDress ==
    [][/\ (op' = "create_a_line_dress" /\ outcome'.exc = "none")
            => Flared(points', BaseWidth')
       /\ (op = "create_a_line_dress" /\ outcome.exc = "none" /\ op' = "plot_pattern")
            => Flared(points', BaseWidth')]_vars

\* what the factory does: with adjustments the flare is there and is drawn; without
\* them the generator comes back with no points at all, and plot_pattern derives and
\* draws the base pattern, C at the base width and B at 0
ALineOnlyWithAdjustments ==
    [][/\ (op' = "create_a_line_dress" /\ outcome'.exc = "none")
            => IF arg' # NoAdjustments THEN Flared(points', BaseWidth')
               ELSE points' = EmptyDict
       /\ (op = "create_a_line_dress" /\ outcome.exc = "none" /\ op' = "plot_pattern")
            => IF arg # NoAdjustments THEN Flared(points', BaseWidth')
               ELSE points' = FreshMap(m, c) /\ ~Flared(points', BaseWidth')]_vars

----------------------------------------------------------------------------
(* Errors at the command line and batch interface *)

CliOps == {"main --load", "main --size", "quick_generate", "batch_generate",
           "interactive_mode"}

\* the exceptions the derivation raises: math.sqrt of a negative radicand
DomainErrors == {"ValueError"}

\* the derivation of the generator the tool built last raises
DerivationRaises ==
    CalculatePoints(m, c, CalculateBaseValues(EmptyDict, m, c)).exc \in DomainErrors

\* C21: on every CLI/batch path that runs the derivation (--load, --size,
\* quick_generate, batch_generate, interactive mode) a domain error raised by
\* generate_pattern is caught by that caller and reported: no run of the tool ends
\* with the domain error propagating out of it.
C21_DomainErrorsContained ==
    op \in CliOps => outcome.exc \notin DomainErrors

\* what the interface does: interactive_mode ends normally whatever happens and
\* load_from_file reports what loading raises, but a measurements file that loads
\* and whose derivation raises takes main --load out with the ValueError; the paths
\* that start from a size alone build no generator whose derivation raises
DomainErrorsOnLoadPath ==
    /\ op = "interactive_mode" => outcome.exc = "none"
    /\ op \in {"main --size", "quick_generate", "batch_generate"}
          => outcome.exc = "none" /\ (arg # <<>> \/ op # "batch_generate" => ~DerivationRaises)
    /\ (op = "main --load" /\ outcome.at # "load_from_file")
          => (outcome.exc \in DomainErrors <=> DerivationRaises)
    /\ (op = "main --load" /\ outcome.at = "load_from_file")
          => outcome.exc = "none" /\ outcome.msg # ""

\* a saved file of a generator with shoulder_bone -3 was loaded by main --load and
\* the derivation raised
LoadPathRaised ==
    /\ op = "main --load"
    /\ arg = "saved.json"
    /\ outcome.exc = "ValueError"

====
